---- MODULE Spec2Model ----
(***************************************************************************)
(* A model of pocketcoder-a1's Session Loop Controller (a1/loop.py), its   *)
(* Verification Engine (SessionLoop._verify_session), the Checkpoint Store *)
(* (a1/checkpoint.py), the Task Store (a1/tasks.py) and the dashboard's    *)
(* start/stop handlers (a1/dashboard.py).                                  *)
(*                                                                         *)
(* Spec      one SessionLoop.start() run with the claude-max provider:     *)
(*           the loop thread, the Worker process it spawns (an external    *)
(*           program that edits the project, .a1/tasks.json and            *)
(*           .a1/checkpoint.json and streams usage events), the operator's *)
(*           interrupt and the stop request.                               *)
(* SpecGuard the same run with every usage value on the stream and a      *)
(*           project that is not edited: the context guard.                *)
(* SpecDash  the dashboard's start_agent/stop_agent handlers and the loop  *)
(*           threads they spawn, at the granularity of the shared flags.   *)
(*                                                                         *)
(* Lists whose order no modelled decision reads (blocking_issues,          *)
(* warnings, files_modified) are modelled as sets.                         *)
(***************************************************************************)
EXTENDS Integers, Sequences, FiniteSets, TLC

(***************************************************************************)
(* Bounds of the model.                                                    *)
(***************************************************************************)
\* calls of save() in SpecStore
MaxSaves == 2
\* tasks the Task Store holds in SpecTasks, SpecNext and SpecDash
MaxTasks == 3
\* largest priority update_task is given in SpecTasks, and a task document
\* handed to SpecNext carries
MaxPriority == 5
\* decisions made in SpecDecisions
MaxDecisions == 22
\* operator messages the dashboard enqueues in SpecQueue
MaxMessages == 3
\* max_sessions of the modelled run (the code's default is 100)
MaxSessions == 3
\* capacity of the Worker's stdout pipe, in unread lines
MaxPipe == 2
\* number of loop threads the dashboard may spawn in SpecDash
MaxLoops == 2
\* sessions a dashboard loop thread may run in SpecDash
MaxDashSessions == 1
\* largest retry_count a checkpoint handed to SpecVerify carries
MaxStoredRetry == 3

(***************************************************************************)
(* Program constants.                                                      *)
(***************************************************************************)
CONTEXT_WINDOW_SIZE == 200000
\* CONTEXT_THRESHOLD = 0.70, as a percentage
CONTEXT_THRESHOLD == 70
MAX_VERIFY_RETRIES == 3
\* decisions[-20:], checkpoint.py line 94 and loop.py line 239
DECISIONS_KEPT == 20
BLOCKING_CHECKS == {"syntax", "tests"}
WARNING_CHECKS == {"lint", "build", "git"}

\* Python's None, and an absent dictionary key
None == << >>
Some(x) == << x >>

(***************************************************************************)
(* Environment: the project the Validator looks at.                        *)
(***************************************************************************)
\* Validator.run_all(): syntax, tests, lint, build (git only with a .git
\* directory, and then always OK).  The modelled project has no build
\* configuration and no .git directory: build is always SKIP.
CheckNames == {"syntax", "tests", "lint", "build"}
\* the checks whose outcome the Worker's edits change
MutableChecks == {"syntax", "tests", "lint"}
ValStates == {v \in [CheckNames -> {"ok", "fail", "skip"}] :
                /\ v["build"] = "skip"
                /\ \A n \in MutableChecks : v[n] \in {"ok", "fail"}}
\* the checks the Worker of Spec breaks and repairs during a run
WorkerChecks == {"tests"}
\* paths the Worker may declare in files_modified
Files == {"a.py"}
\* input_tokens values a usage event may carry
TokenValues == {60000, 140000, 160000}
\* the usage the Worker of Spec reports
SpecTokenValues == {160000}
\* return codes of the Worker process
ExitCodes == {0, 1, 130}

VARIABLES
  \* ---- SessionLoop (loop.py) ----
  pc,                 \* position of the loop thread in start()/run_session()
  running,            \* self._running
  session_count,      \* start()'s local session_count
  is_first,           \* start()'s local is_first
  exit_code,          \* start()'s local exit_code (0 while it is unassigned or dead)
  prompt,             \* the prompt of the session being run (None outside run_session)
  baseline,           \* self._baseline (None before _capture_baseline)
  last_verification,  \* self._last_verification
  context_overflow,   \* self._context_overflow
  context_percent,    \* self._context_percent, in units of 1/CONTEXT_WINDOW_SIZE
  tokens_in,          \* self._session_metrics["tokens_in"]
  proc,               \* self._current_process: "none" | "alive" | "exited"
  proc_rc,            \* returncode of the process object (0 while there is none)
  term_requested,     \* terminate() was called on the process object
  pipe,               \* lines the Worker wrote and the loop has not read
  guard_fired,        \* history: the input_tokens at which lines 157-158 fired in this session
  guard_saved,        \* how often lines 609-617 (checkpoint, terminate) ran in this session
  run_state,          \* RUNNING | COMPLETED | STOPPED | CRASHED
  \* ---- files ----
  cp_file,            \* .a1/checkpoint.json
  tasks,              \* .a1/tasks.json: the "tasks" list
  val,                \* what Validator.run_all() reports now
  disk,               \* which of Files exist
  cli_present,        \* whether what the provider needs to start a session
                      \* is there: the `claude` executable, the API key and
                      \* the anthropic SDK, the ollama SDK
  \* ---- history (not program state) ----
  tests_streak,       \* consecutive verifications, up to the last one, that
                      \* found a new (not baseline) tests failure
  decision,           \* what the decision step of the last session did
  interrupted,        \* a signal reached _handle_interrupt during a Worker
                      \* session and the operator has not been asked since
  \* ---- dashboard (dashboard.py) ----
  AGENT_RUNNING,      \* the global AGENT_RUNNING
  AGENT_LOOP,         \* the global AGENT_LOOP: 0 for None, else the loop's number
  agents,             \* the threads start_agent spawned, each with its SessionLoop
  \* ---- .a1/checkpoints (checkpoint.py) ----
  archive,            \* the archive directory: file name -> version of the
                      \* file, the number of times save() has written it
                      \* (every write carries its own updated_at)
  \* ---- a caller of the Checkpoint Store (SpecStore) ----
  saved,              \* the record handed to the last save(), None before
  loaded,             \* the outcome of the load() after it, None before
  started,            \* history: the session number the last start_session
                      \* yielded, 0 before the first
  \* ---- .a1/queue.json (loop.py, dashboard.py) ----
  queue_file,         \* the "messages" list of the queue document
  enq_local,          \* queue_data of the /queue-message handler between its
                      \* read and its write (None outside)
  drain_local,        \* data of _read_queue_messages between its read and
                      \* its write (None outside)
  delivered,          \* history: in how many prompts each message was included
  enqueued,           \* history: the messages whose /queue-message request returned
  \* ---- the commands of the Validator (validator.py) ----
  commands,           \* history: how the commands of the last run_all() ended,
                      \* None before
  \* ---- the decisions of .a1/checkpoint.json (SpecDecisions) ----
  cp_decisions,       \* the "decisions" list of the document; the entries
                      \* are numbered in the order they were made
  \* ---- .a1/tasks.json beside the "tasks" list (tasks.py) ----
  next_id,            \* the "next_id" of the document
  last_call,          \* history: the last call of the Task Store, its
                      \* argument and what it returned
  \* ---- SessionLoop's configuration (loop.py) ----
  provider            \* self.provider

loopVars == << pc, running, session_count, is_first, exit_code, prompt,
               baseline, last_verification, context_overflow,
               context_percent, tokens_in, proc, proc_rc, term_requested,
               pipe, guard_fired, guard_saved, run_state >>
fileVars == << cp_file, tasks, val, disk, cli_present >>
histVars == << tests_streak, decision, interrupted >>
dashVars == << AGENT_RUNNING, AGENT_LOOP, agents >>
archVars == << archive >>
storeVars == << saved, loaded, started >>
queueVars == << queue_file, enq_local, drain_local, delivered, enqueued >>
checkVars == << commands >>
decisionVars == << cp_decisions >>
taskVars == << next_id, last_call >>
providerVars == << provider >>
restVars == << archVars, storeVars, queueVars, checkVars, decisionVars,
              taskVars, providerVars >>
vars == << loopVars, fileVars, histVars, dashVars, restVars >>

(***************************************************************************)
(* Checkpoint Store (checkpoint.py).  Of a timestamp only its origin is    *)
(* modelled: updated_at is "initial" (set by _create_initial), "save" (set *)
(* by save) or "caller" (whatever the caller's record carried).            *)
(***************************************************************************)
\* CheckpointManager._create_initial: no last_verification and no
\* session_metrics key
CreateInitial ==
  [ status            |-> "STARTING",
    session           |-> 0,
    context_percent   |-> 0,
    files_modified    |-> {},
    last_verification |-> None,
    session_metrics   |-> None,
    updated_at        |-> "initial" ]

\* JSON values, as json.dump writes and json.load reads them
JStr(x)  == [t |-> "string", s |-> x]
JNum(n)  == [t |-> "number", n |-> n]
JBool(b) == [t |-> IF b THEN "true" ELSE "false"]
JArr(xs) == [t |-> "array", items |-> xs]
JObj(f)  == [t |-> "object", members |-> f]
JNull    == [t |-> "null"]

\* json.dump of a last_verification record (lines 1120-1126 of loop.py)
DumpVerification(lv) ==
  JObj([ passed          |-> JBool(lv.passed),
         blocking_issues |-> JArr({JStr(x) : x \in lv.blocking_issues}),
         warnings        |-> JArr({JStr(w) : w \in lv.warnings}),
         retry_count     |-> JNum(lv.retry_count),
         session         |-> JNum(lv.session) ])

\* json.load of it
LoadVerification(j) ==
  [ passed          |-> j.members.passed.t = "true",
    blocking_issues |-> {x.s : x \in j.members.blocking_issues.items},
    warnings        |-> {w.s : w \in j.members.warnings.items},
    retry_count     |-> j.members.retry_count.n,
    session         |-> j.members.session.n ]

\* json.dump(checkpoint, f): a key the record does not have is not written
JsonDump(checkpoint) ==
  LET keys == {"status", "session", "context_percent", "files_modified", "updated_at"}
              \cup (IF checkpoint.last_verification # None
                    THEN {"last_verification"} ELSE {})
              \cup (IF checkpoint.session_metrics # None
                    THEN {"session_metrics"} ELSE {})
  IN JObj([k \in keys |->
       CASE k = "status"            -> JStr(checkpoint.status)
         [] k = "session"           -> JNum(checkpoint.session)
         [] k = "context_percent"   -> JNum(checkpoint.context_percent)
         [] k = "files_modified"    -> JArr({JStr(x) : x \in checkpoint.files_modified})
         [] k = "updated_at"        -> JStr(checkpoint.updated_at)
         [] k = "last_verification" -> DumpVerification(checkpoint.last_verification[1])
         [] k = "session_metrics"   ->
              JObj([tokens_in |-> JNum(checkpoint.session_metrics[1])])])

\* json.load(f) of a JSON object
JsonLoad(j) ==
  [ status            |-> j.members["status"].s,
    session           |-> j.members["session"].n,
    context_percent   |-> j.members["context_percent"].n,
    files_modified    |-> {x.s : x \in j.members["files_modified"].items},
    last_verification |-> IF "last_verification" \in DOMAIN j.members
                          THEN Some(LoadVerification(j.members["last_verification"]))
                          ELSE None,
    session_metrics   |-> IF "session_metrics" \in DOMAIN j.members
                          THEN Some(j.members["session_metrics"].members.tokens_in.n)
                          ELSE None,
    updated_at        |-> j.members["updated_at"].s ]

\* the checkpoint document on disk.  kind: "missing" (no file), "malformed"
\* (not JSON), "unreadable" (open or read fails with an IOError),
\* "undecodable" (bytes that are not text in the file encoding) or "json"
\* (data is the JSON value in the file)
MissingFile == [kind |-> "missing", data |-> JNull]

\* mutant of Document: the session_metrics key is not written
Document_WithoutMetrics(checkpoint) ==
  [kind |-> "json",
   data |-> JsonDump([checkpoint EXCEPT !.session_metrics = None])]

\* what json.dump writes for a record
Document(checkpoint) == [kind |-> "json", data |-> JsonDump(checkpoint)]

\* CheckpointManager.load: whether it raises, and the value it returns.
\* Lines 26-27: no file; lines 29-33: JSONDecodeError and IOError are
\* caught, UnicodeDecodeError is not; a JSON value that is not an object
\* is returned as it is (None for null).
LoadResult(file) ==
  CASE file.kind \in {"missing", "malformed", "unreadable"} ->
         [raised |-> FALSE, value |-> CreateInitial]
    [] file.kind = "undecodable" ->
         [raised |-> TRUE, value |-> None]
    [] file.kind = "json" /\ file.data.t = "object" ->
         [raised |-> FALSE, value |-> JsonLoad(file.data)]
    [] OTHER ->
         [raised |-> FALSE, value |-> None]

\* CheckpointManager.load, its return value
Load(file) == LoadResult(file).value

\* CheckpointManager.save, lines 37-41: the record as stamped and the
\* document written to checkpoint.json
Stamped(checkpoint) == [checkpoint EXCEPT !.updated_at = "save"]
Save(checkpoint) == Document(Stamped(checkpoint))

\* line 45: the archive file name, f"session_{session:03d}.json", as the
\* sequence of its decimal digits, zero-padded to three
RECURSIVE Decimal(_)
Decimal(n) == IF n < 10 THEN << n >> ELSE Append(Decimal(n \div 10), n % 10)
ArchiveName(n) ==
  IF n < 10 THEN << 0, 0 >> \o Decimal(n)
  ELSE IF n < 100 THEN << 0 >> \o Decimal(n)
  ELSE Decimal(n)

\* CheckpointManager.save, lines 44-47: the archive directory after the
\* save; a file of the same name is overwritten, which makes its next
\* version
Archive(arch, checkpoint) ==
  LET name == ArchiveName(checkpoint.session) IN
    [f \in DOMAIN arch \cup {name} |->
       IF f # name THEN arch[f]
       ELSE IF f \in DOMAIN arch THEN arch[f] + 1 ELSE 1]

\* mutant of StartSessionRecord: the status is left as it was found
StartSessionRecord_KeepsStatus(file) ==
  [Load(file) EXCEPT !.session = @ + 1]

\* CheckpointManager.start_session: the record it saves and returns
StartSessionRecord(file) ==
  [Load(file) EXCEPT !.session = @ + 1, !.status = "WORKING"]

\* CheckpointManager.is_completed
IsCompleted(file) == Load(file).status = "COMPLETED"

\* CheckpointManager.get_session_number
GetSessionNumber(file) == Load(file).session

(***************************************************************************)
(* Task Store (tasks.py).                                                  *)
(***************************************************************************)
\* The task document of the modelled project: two pending tasks, the first
\* with a success_criteria that check_criteria verifies by running the tests
\* ("tests pass"), the second without one.
InitTasks ==
  << [id |-> 1, status |-> "pending", priority |-> 1, success_criteria |-> "tests pass"],
     [id |-> 2, status |-> "pending", priority |-> 2, success_criteria |-> "none"] >>

\* no call of the Task Store yet
NoCall == [op |-> "none", ids |-> << >>, ret |-> 0]

\* the arguments of reorder_tasks: lists of distinct ids, of tasks that exist
\* or not
ReorderArgs ==
  {ids \in UNION {[1..n -> 1..MaxTasks] : n \in 1..MaxTasks} :
     \A i, j \in 1..Len(ids) : i # j => ids[i] # ids[j]}

\* TaskManager.get_tasks(status)
GetTasks(ts, status) == {i \in DOMAIN ts : ts[i].status = status}

\* TaskManager.get_progress
GetProgress(ts) == << Cardinality(GetTasks(ts, "done")), Len(ts) >>

\* TaskManager._load_data, lines 65-72: a task whose priority is 0 gets its
\* position in the list as priority (and the document is saved)
LoadData(ts) ==
  [i \in 1..Len(ts) |->
     IF ts[i].priority = 0 THEN [ts[i] EXCEPT !.priority = i] ELSE ts[i]]

\* max(existing_priorities, default=0)
MaxPriorityOf(ts) ==
  IF ts = << >> THEN 0
  ELSE CHOOSE m \in {ts[i].priority : i \in 1..Len(ts)} :
         \A i \in 1..Len(ts) : ts[i].priority <= m

\* mutant of NextPriority: the number of tasks instead of the maximum
NextPriority_ByCount(ts) == Len(ts) + 1

\* add_task, lines 106-107
NextPriority(ts) == MaxPriorityOf(ts) + 1

\* mutant of NextId: next_id is not advanced
NextId_NotAdvanced(nid) == nid

\* add_task, line 120: data["next_id"] += 1
NextId(nid) == nid + 1

\* TaskManager.add_task: the tasks list it saves.  A task's id is the
\* number n of its "task_00n".
AddTask(ts, nid) ==
  Append(LoadData(ts),
         [id |-> nid, status |-> "pending", priority |-> NextPriority(LoadData(ts)),
          success_criteria |-> "none"])

\* the position of the first task with this id, 0 when there is none
IndexOf(ts, id) ==
  IF \E i \in 1..Len(ts) : ts[i].id = id
  THEN CHOOSE i \in 1..Len(ts) :
         ts[i].id = id /\ \A j \in 1..(i - 1) : ts[j].id # id
  ELSE 0

\* the order the page sends after a drop (lines 1286-1291): the ids of all
\* the tasks it shows, in their new order
PageOrders(ts) ==
  {ids \in ReorderArgs :
     /\ Len(ids) = Len(ts)
     /\ \A i \in 1..Len(ids) : IndexOf(ts, ids[i]) # 0}

\* TaskManager.update_task(task_id, priority=p): the tasks list
UpdatePriority(ts, id, p) ==
  IF IndexOf(LoadData(ts), id) = 0 THEN LoadData(ts)
  ELSE [LoadData(ts) EXCEPT ![IndexOf(LoadData(ts), id)].priority = p]

\* TaskManager.update_task(task_id, status=st): the tasks list
UpdateStatus(ts, id, st) ==
  IF IndexOf(LoadData(ts), id) = 0 THEN LoadData(ts)
  ELSE [LoadData(ts) EXCEPT ![IndexOf(LoadData(ts), id)].status = st]

\* mutant of IdToPriority: positions counted from 0
IdToPriority_FromZero(task_ids, id) ==
  (CHOOSE idx \in 1..Len(task_ids) :
     task_ids[idx] = id /\ \A j \in (idx + 1)..Len(task_ids) : task_ids[j] # id) - 1

\* reorder_tasks, line 174: {tid: idx + 1}; of a repeated id the last
\* position stays
IdToPriority(task_ids, id) ==
  CHOOSE idx \in 1..Len(task_ids) :
    task_ids[idx] = id /\ \A j \in (idx + 1)..Len(task_ids) : task_ids[j] # id

\* TaskManager.reorder_tasks: the tasks list it saves
ReorderTasks(ts, task_ids) ==
  [i \in 1..Len(ts) |->
     IF \E idx \in 1..Len(task_ids) : task_ids[idx] = LoadData(ts)[i].id
     THEN [LoadData(ts)[i] EXCEPT !.priority = IdToPriority(task_ids, LoadData(ts)[i].id)]
     ELSE LoadData(ts)[i]]

\* sorted(tasks, key=lambda t: t.priority)[0] over the tasks with this
\* status: the first of those with the lowest priority; 0 when there is none
FirstByPriority(ts, status) ==
  IF GetTasks(ts, status) = {} THEN 0
  ELSE CHOOSE i \in GetTasks(ts, status) :
         \A j \in GetTasks(ts, status) :
            \/ ts[i].priority < ts[j].priority
            \/ ts[i].priority = ts[j].priority /\ i <= j

\* mutant of GetNextTask: the lowest priority among in_progress and pending
GetNextTask_ByPriorityOnly(ts) ==
  LET d    == LoadData(ts)
      cand == GetTasks(d, "in_progress") \cup GetTasks(d, "pending")
  IN  IF cand = {} THEN 0
      ELSE d[CHOOSE i \in cand :
               \A j \in cand : \/ d[i].priority < d[j].priority
                               \/ d[i].priority = d[j].priority /\ i <= j].id

\* TaskManager.get_next_task: the id of the task it returns, 0 for None
GetNextTask(ts) ==
  LET d == LoadData(ts) IN
    IF FirstByPriority(d, "in_progress") # 0
    THEN d[FirstByPriority(d, "in_progress")].id
    ELSE IF FirstByPriority(d, "pending") # 0
    THEN d[FirstByPriority(d, "pending")].id
    ELSE 0

\* sorted(tasks, key=lambda t: t.priority): Python's sort is stable
RECURSIVE SortedByPriority(_)
SortedByPriority(ts) ==
  IF ts = << >> THEN << >>
  ELSE LET i == CHOOSE k \in 1..Len(ts) :
                  \A j \in 1..Len(ts) :
                     \/ ts[k].priority < ts[j].priority
                     \/ ts[k].priority = ts[j].priority /\ k <= j
       IN  << ts[i] >> \o
           SortedByPriority(SubSeq(ts, 1, i - 1) \o SubSeq(ts, i + 1, Len(ts)))

(***************************************************************************)
(* Validator (validator.py).                                               *)
(***************************************************************************)
\* How a command of the Validator ended: with an exit status, by running
\* into its timeout, or not at all because the executable was not found.
Exit(n) == [kind |-> "exit", code |-> n]
TimedOut == [kind |-> "timeout", code |-> 0]
NotFound == [kind |-> "not_found", code |-> 0]

\* Validator._run_command: the return code it hands back
RunCommand(outcome) ==
  IF outcome.kind = "timeout" THEN -1
  ELSE IF outcome.kind = "not_found" THEN -2
  ELSE outcome.code

\* Validator._check_syntax: py_compile maps each *.py file to the outcome of
\* its py_compile command
CheckSyntax(py_compile) ==
  IF DOMAIN py_compile = {} THEN "skip"
  ELSE IF \E f \in DOMAIN py_compile : RunCommand(py_compile[f]) # 0 THEN "fail"
  ELSE "ok"

\* Validator._run_tests: pytest, and unittest when pytest is not found
RunTests(pytest, unittest) ==
  LET code == IF RunCommand(pytest) = -2 THEN RunCommand(unittest)
              ELSE RunCommand(pytest)
  IN  IF code = -2 THEN "skip"
      ELSE IF code = 0 THEN "ok"
      ELSE IF code = 5 THEN "skip"
      ELSE "fail"

\* Validator._run_lint: ruff, and flake8 when ruff is not found
RunLint(ruff, flake8) ==
  LET code == IF RunCommand(ruff) = -2 THEN RunCommand(flake8)
              ELSE RunCommand(ruff)
  IN  IF code = -2 THEN "skip"
      ELSE IF code = 0 THEN "ok"
      ELSE "fail"

\* Validator.run_all on the outcomes c of its commands
RunAll(c) ==
  [n \in CheckNames |->
     CASE n = "syntax" -> CheckSyntax(c.py_compile)
       [] n = "tests"  -> RunTests(c.pytest, c.unittest)
       [] n = "lint"   -> RunLint(c.ruff, c.flake8)
       [] n = "build"  -> "skip"]

\* Validator.check_files_exist
CheckFilesExist(paths, d) ==
  IF paths = {} THEN "skip"
  ELSE IF \E f \in paths : f \notin d THEN "fail" ELSE "ok"

\* Validator.check_criteria
CheckCriteria(criteria, v) ==
  IF criteria = "tests pass" THEN v["tests"] ELSE "skip"

(***************************************************************************)
(* Verification Engine (loop.py, _verify_session).                         *)
(***************************************************************************)
\* mutant of IsNewIssue: the baseline is not consulted
IsNewIssue_AlwaysNew(check_name, base) == TRUE

\* SessionLoop._is_new_issue: base is self._baseline, a map from check name
\* to result, or None before _capture_baseline
IsNewIssue(check_name, base) ==
  IF base = None THEN TRUE
  ELSE IF check_name \in DOMAIN base[1] /\ base[1][check_name] = "fail" THEN FALSE
  ELSE TRUE

\* the warning entries: a check name and the "(pre-existing, skipped)" mark
Warning(name, pre) == [check |-> name, pre_existing |-> pre]
MaxRetriesWarning == Warning("MAX RETRIES", FALSE)

\* lines 292-305: the validator reports that failed
ValidatorBlocking(v, base) ==
  {n \in DOMAIN v : v[n] = "fail" /\ IsNewIssue(n, base) /\ n \in BLOCKING_CHECKS}
ValidatorWarnings(v, base) ==
  {Warning(n, TRUE) : n \in {m \in DOMAIN v : v[m] = "fail" /\ ~IsNewIssue(m, base)}}
  \cup
  {Warning(n, FALSE) :
     n \in {m \in DOMAIN v : v[m] = "fail" /\ IsNewIssue(m, base) /\ m \notin BLOCKING_CHECKS}}

\* lines 307-313
FilesBlocking(checkpoint, d) ==
  IF checkpoint.files_modified # {} /\ CheckFilesExist(checkpoint.files_modified, d) = "fail"
  THEN {"files"} ELSE {}

\* lines 315-321: "<task id> criteria" for every done task whose criteria fail
CriteriaIssue(id) == IF id = 1 THEN "task_001 criteria" ELSE "task_002 criteria"
CriteriaBlocking(ts, v) ==
  {CriteriaIssue(ts[i].id) :
     i \in {j \in GetTasks(ts, "done") :
              /\ ts[j].success_criteria # "none"
              /\ CheckCriteria(ts[j].success_criteria, v) = "fail"}}

\* mutant of TasksBlocking: progress counts as short only with nothing done
TasksBlocking_OnlyWhenNoneDone(checkpoint, ts) ==
  IF checkpoint.status = "COMPLETED" /\ GetProgress(ts)[1] = 0
  THEN {"tasks"} ELSE {}

\* lines 323-327
TasksBlocking(checkpoint, ts) ==
  IF checkpoint.status = "COMPLETED" /\ GetProgress(ts)[1] < GetProgress(ts)[2]
  THEN {"tasks"} ELSE {}

\* lines 330-331
PrevRetry(checkpoint) ==
  IF checkpoint.last_verification = None THEN 0
  ELSE IF ~checkpoint.last_verification[1].passed
       THEN checkpoint.last_verification[1].retry_count
       ELSE 0

\* line 332
RetryCount(prev_retry, blocking_issues) ==
  IF blocking_issues # {} THEN prev_retry + 1 ELSE 0

\* mutant of ForceAccept: the cap is compared with > instead of >=
ForceAccept_OffByOne(blocking_issues, retry_count) ==
  blocking_issues # {} /\ retry_count > MAX_VERIFY_RETRIES

\* lines 335-337
ForceAccept(blocking_issues, retry_count) ==
  blocking_issues # {} /\ retry_count >= MAX_VERIFY_RETRIES

\* mutant of Passed: force_accept is not consulted
Passed_WithoutForceAccept(blocking_issues, force_accept) == blocking_issues = {}

\* line 342
Passed(blocking_issues, force_accept) == blocking_issues = {} \/ force_accept

\* lines 376-383: the blocking_issues and warnings of the returned result
ResultBlocking(blocking_issues, force_accept) == blocking_issues
ResultWarnings(warnings, force_accept) ==
  IF force_accept THEN warnings \cup {MaxRetriesWarning} ELSE warnings

\* SessionLoop._verify_session
VerifySession(v, base, file, ts, d) ==
  LET checkpoint      == Load(file)
      blocking_issues == ValidatorBlocking(v, base) \cup FilesBlocking(checkpoint, d)
                         \cup CriteriaBlocking(ts, v) \cup TasksBlocking(checkpoint, ts)
      warnings        == ValidatorWarnings(v, base)
      retry_count     == RetryCount(PrevRetry(checkpoint), blocking_issues)
      force_accept    == ForceAccept(blocking_issues, retry_count)
  IN  [ passed          |-> Passed(blocking_issues, force_accept),
        force_accepted  |-> force_accept,
        blocking_issues |-> ResultBlocking(blocking_issues, force_accept),
        warnings        |-> ResultWarnings(warnings, force_accept),
        retry_count     |-> retry_count ]

(***************************************************************************)
(* Session Loop Controller (loop.py).                                      *)
(***************************************************************************)
\* int(self._context_percent * 100); exact for the TokenValues of the model
Pct(percent) == (percent * 100) \div CONTEXT_WINDOW_SIZE

\* mutant of GuardTriggers: the "not self._context_overflow" latch is dropped
GuardTriggers_NoLatch(percent, overflow) ==
  percent * 100 >= CONTEXT_THRESHOLD * CONTEXT_WINDOW_SIZE

\* line 157: the threshold test of _parse_stream_event
GuardTriggers(percent, overflow) ==
  percent * 100 >= CONTEXT_THRESHOLD * CONTEXT_WINDOW_SIZE /\ ~overflow

\* line 608: whether the read loop ends the session for the checkpoint
GuardActs(overflow, process) == overflow /\ process = "alive"

\* SessionLoop._save_context_checkpoint: the record it saves
ContextCheckpoint(file, percent, tokens) ==
  [Load(file) EXCEPT !.context_percent = Pct(percent),
                     !.status = "WORKING",
                     !.session_metrics = Some(tokens)]

\* SessionLoop._get_verification_prompt: None when nothing is appended
GetVerificationPrompt(lv) ==
  IF lv = None \/ lv[1].passed THEN None
  ELSE IF lv[1].blocking_issues = {} /\ lv[1].warnings = {} THEN None
  ELSE Some([ blocking_issues |-> lv[1].blocking_issues,
              warnings        |-> lv[1].warnings,
              retry_count     |-> lv[1].retry_count ])

\* mutant of MismatchRecord: the status is not reset
MismatchRecord_KeepsStatus(file, verification) ==
  [Load(file) EXCEPT
     !.last_verification =
        Some([ passed          |-> FALSE,
               blocking_issues |-> verification.blocking_issues,
               warnings        |-> verification.warnings,
               retry_count     |-> verification.retry_count,
               session         |-> Load(file).session ])]

\* lines 1118-1126: the record saved when COMPLETED meets a failed verification
MismatchRecord(file, verification) ==
  [Load(file) EXCEPT
     !.status = "WORKING",
     !.last_verification =
        Some([ passed          |-> FALSE,
               blocking_issues |-> verification.blocking_issues,
               warnings        |-> verification.warnings,
               retry_count     |-> verification.retry_count,
               session         |-> Load(file).session ])]

\* lines 1087-1091: the record saved after the session
MetricsRecord(file, percent, tokens) ==
  [Load(file) EXCEPT !.session_metrics = Some(tokens),
                     !.context_percent = Pct(percent)]

\* line 1062: the loop condition
LoopContinues(is_running, count) == is_running /\ count < MaxSessions

\* a thread start_agent has not spawned yet.  at: the thread's position;
\* running: its loop's _running; process: its loop's _current_process
\* ("none" | "alive" | "exited"); signalled: terminate() was called on the
\* process; count: start()'s session_count; stopped (history): stop() has
\* been called on the loop
Unborn ==
  [at |-> "unborn", running |-> FALSE, process |-> "none",
   signalled |-> FALSE, count |-> 0, stopped |-> FALSE]

\* everything but the task document and the provider
InitExceptTasks ==
  /\ pc = "start"
  /\ running = FALSE
  /\ session_count = 0
  /\ is_first = FALSE
  /\ exit_code = 0
  /\ prompt = None
  /\ baseline = None
  /\ last_verification = None
  /\ context_overflow = FALSE
  /\ context_percent = 0
  /\ tokens_in = 0
  /\ proc = "none"
  /\ proc_rc = 0
  /\ term_requested = FALSE
  /\ pipe = << >>
  /\ guard_fired = << >>
  /\ guard_saved = 0
  /\ run_state = "RUNNING"
  /\ cp_file = MissingFile
  /\ val \in ValStates
  /\ disk = {}
  /\ cli_present \in BOOLEAN
  /\ tests_streak = 0
  /\ decision = "none"
  /\ interrupted = FALSE
  /\ AGENT_RUNNING = FALSE
  /\ AGENT_LOOP = 0
  /\ agents = [i \in 1..MaxLoops |-> Unborn]
  /\ archive = << >>
  /\ saved = None
  /\ loaded = None
  /\ started = 0
  /\ queue_file = << >>
  /\ enq_local = None
  /\ drain_local = None
  /\ delivered = [m \in 1..MaxMessages |-> 0]
  /\ enqueued = {}
  /\ commands = None
  /\ cp_decisions = << >>
  /\ last_call = NoCall

\* the project of the modelled run, with its two tasks, run with claude-max
Init ==
  /\ InitExceptTasks
  /\ provider = "claude-max"
  /\ tasks = InitTasks
  /\ next_id = Len(InitTasks) + 1

\* start(), lines 1047-1060: set the flag, capture the baseline
StartRun ==
  /\ pc = "start"
  /\ running' = TRUE
  /\ session_count' = 0
  /\ baseline' = Some(val)
  /\ pc' = "loop"
  /\ UNCHANGED << is_first, exit_code, prompt, last_verification, context_overflow,
                  context_percent, tokens_in, proc, proc_rc, term_requested, pipe,
                  guard_fired, guard_saved, run_state, fileVars, histVars, dashVars, restVars >>

\* lines 1062-1064: the loop condition holds; count the session
LoopEnter ==
  /\ pc = "loop"
  /\ LoopContinues(running, session_count)
  /\ session_count' = session_count + 1
  /\ is_first' = (session_count + 1 = 1 /\ GetSessionNumber(cp_file) = 0)
  /\ exit_code' = 0
  /\ pc' = "start_session"
  /\ UNCHANGED << running, prompt, baseline, last_verification,
                  context_overflow, context_percent, tokens_in, proc, proc_rc,
                  term_requested, pipe, guard_fired, guard_saved, run_state,
                  fileVars, histVars, dashVars, restVars >>

\* lines 1062, 1144-1151: the loop condition fails; the run stops
LoopExit ==
  /\ pc = "loop"
  /\ ~LoopContinues(running, session_count)
  /\ pc' = "done"
  /\ run_state' = "STOPPED"
  /\ UNCHANGED << running, session_count, is_first, exit_code, prompt, baseline,
                  last_verification, context_overflow, context_percent, tokens_in,
                  proc, proc_rc, term_requested, pipe, guard_fired, guard_saved,
                  fileVars, histVars, dashVars, restVars >>

\* line 1067: checkpoint.start_session()
StartSession ==
  /\ pc = "start_session"
  /\ cp_file' = Save(StartSessionRecord(cp_file))
  /\ archive' = Archive(archive, StartSessionRecord(cp_file))
  /\ decision' = "none"
  /\ pc' = "build_prompt"
  /\ UNCHANGED << running, session_count, is_first, exit_code, prompt, baseline,
                  last_verification, context_overflow, context_percent, tokens_in,
                  proc, proc_rc, term_requested, pipe, guard_fired, guard_saved,
                  run_state, tasks, val, disk, cli_present, tests_streak, interrupted, dashVars, storeVars, queueVars, checkVars, decisionVars, taskVars, providerVars >>

\* line 1074: build_prompt(is_first).  No dashboard writes the operator
\* queue during the run modelled here: _read_queue_messages finds nothing
\* unread, returns "" and writes nothing (SpecQueue has the queue).
BuildPrompt ==
  /\ pc = "build_prompt"
  /\ prompt' = Some([ is_first     |-> is_first,
                      verification |-> GetVerificationPrompt(last_verification) ])
  /\ pc' = "run_session"
  /\ UNCHANGED << running, session_count, is_first, exit_code, baseline,
                  last_verification, context_overflow, context_percent, tokens_in,
                  proc, proc_rc, term_requested, pipe, guard_fired, guard_saved,
                  run_state, fileVars, histVars, dashVars, restVars >>

\* mutant of InitialTokens: the count of the session before is kept
InitialTokens_Kept(previous) == previous

\* lines 553-554, 807-808 and 971-972: "tokens_in": 0 of the new
\* _session_metrics, whatever the count of the session before
InitialTokens(previous) == 0

\* _run_claude_max, lines 550-583: reset the metrics, spawn the Worker
SpawnWorker ==
  /\ pc = "run_session"
  /\ provider = "claude-max"
  /\ cli_present
  /\ context_overflow' = FALSE
  /\ context_percent' = 0
  /\ tokens_in' = InitialTokens(tokens_in)
  /\ guard_fired' = << >>
  /\ guard_saved' = 0
  /\ proc' = "alive"
  /\ term_requested' = FALSE
  /\ pipe' = << >>
  /\ pc' = "stream"
  /\ UNCHANGED << running, session_count, is_first, exit_code, prompt, baseline,
                  last_verification, proc_rc, run_state, fileVars, histVars, dashVars, restVars >>

\* _run_claude_max, lines 550-558 and 627-629: Popen raises FileNotFoundError
WorkerNotFound ==
  /\ pc = "run_session"
  /\ provider = "claude-max"
  /\ ~cli_present
  /\ context_overflow' = FALSE
  /\ context_percent' = 0
  /\ tokens_in' = InitialTokens(tokens_in)
  /\ guard_fired' = << >>
  /\ guard_saved' = 0
  /\ exit_code' = 1
  /\ prompt' = None
  /\ pc' = "post_session"
  /\ UNCHANGED << running, session_count, is_first, baseline,
                  last_verification, proc, proc_rc, term_requested, pipe,
                  run_state, fileVars, histVars, dashVars, restVars >>

\* self._context_overflow after _parse_stream_event has parsed a usage event
\* that reports input_tokens = t (lines 146-158)
ParsedOverflow(t) == context_overflow \/ GuardTriggers(t, context_overflow)

\* lines 588-617, one iteration of the read loop on a usage line: parse it,
\* and go on reading (the guard does not act)
ReadLine ==
  /\ pc = "stream"
  /\ pipe # << >>
  /\ LET t == Head(pipe) IN
       /\ ~GuardActs(ParsedOverflow(t), proc)
       /\ tokens_in' = t
       /\ context_percent' = t
       /\ context_overflow' = ParsedOverflow(t)
       /\ guard_fired' = IF GuardTriggers(t, context_overflow)
                         THEN Append(guard_fired, t) ELSE guard_fired
  /\ pipe' = Tail(pipe)
  /\ UNCHANGED << pc, running, session_count, is_first, exit_code, prompt, baseline,
                  last_verification, proc, proc_rc, term_requested, guard_saved,
                  run_state, fileVars, histVars, dashVars, restVars >>

\* lines 588-617: parse the usage line; the guard acts: checkpoint,
\* terminate(), and the Worker exits within wait(timeout=10); return 0
GuardTerminate ==
  /\ pc = "stream"
  /\ pipe # << >>
  /\ LET t == Head(pipe) IN
       /\ GuardActs(ParsedOverflow(t), proc)
       /\ tokens_in' = t
       /\ context_percent' = t
       /\ context_overflow' = ParsedOverflow(t)
       /\ guard_fired' = IF GuardTriggers(t, context_overflow)
                         THEN Append(guard_fired, t) ELSE guard_fired
       /\ cp_file' = Save(ContextCheckpoint(cp_file, t, t))
       /\ archive' = Archive(archive, ContextCheckpoint(cp_file, t, t))
  /\ guard_saved' = guard_saved + 1
  /\ term_requested' = FALSE
  /\ proc' = "none"
  /\ pipe' = << >>
  /\ exit_code' = 0
  /\ prompt' = None
  /\ pc' = "post_session"
  /\ UNCHANGED << running, session_count, is_first, baseline,
                  last_verification, proc_rc, run_state, tasks, val, disk,
                  cli_present, histVars, dashVars, storeVars, queueVars, checkVars, decisionVars, taskVars, providerVars >>

\* lines 588-613: as GuardTerminate, but the Worker does not exit within the
\* 10 seconds: wait() raises TimeoutExpired, which nothing catches
GuardTimeout ==
  /\ pc = "stream"
  /\ pipe # << >>
  /\ LET t == Head(pipe) IN
       /\ GuardActs(ParsedOverflow(t), proc)
       /\ tokens_in' = t
       /\ context_percent' = t
       /\ context_overflow' = ParsedOverflow(t)
       /\ guard_fired' = IF GuardTriggers(t, context_overflow)
                         THEN Append(guard_fired, t) ELSE guard_fired
       /\ cp_file' = Save(ContextCheckpoint(cp_file, t, t))
       /\ archive' = Archive(archive, ContextCheckpoint(cp_file, t, t))
  /\ guard_saved' = guard_saved + 1
  /\ term_requested' = TRUE
  /\ pipe' = Tail(pipe)
  /\ pc' = "crashed"
  /\ run_state' = "CRASHED"
  /\ UNCHANGED << running, session_count, is_first, exit_code, prompt, baseline,
                  last_verification, proc, proc_rc, tasks, val, disk,
                  cli_present, histVars, dashVars, storeVars, queueVars, checkVars, decisionVars, taskVars, providerVars >>

\* lines 588-590 and 619-625: end of the stream after the Worker has exited
ReadEOF ==
  /\ pc = "stream"
  /\ pipe = << >>
  /\ proc = "exited"
  /\ exit_code' = proc_rc
  /\ proc' = "none"
  /\ proc_rc' = 0
  /\ term_requested' = FALSE
  /\ prompt' = None
  /\ pc' = "post_session"
  /\ UNCHANGED << running, session_count, is_first, baseline,
                  last_verification, context_overflow, context_percent, tokens_in,
                  pipe, guard_fired, guard_saved, run_state, fileVars, histVars, dashVars, restVars >>

(***************************************************************************)
(* The Worker: an external process.  It does what the prompt tells it to   *)
(* (edit the project, .a1/tasks.json, .a1/checkpoint.json), in any order   *)
(* and any number of times, reports usage, and exits.                      *)
(***************************************************************************)
WorkerAlive == pc = "stream" /\ proc = "alive"

\* a rate_limit_event line with usage.input_tokens = t
WorkerEmitUsage(t) ==
  /\ WorkerAlive
  /\ Len(pipe) < MaxPipe
  /\ pipe' = Append(pipe, t)
  /\ UNCHANGED << pc, running, session_count, is_first, exit_code, prompt, baseline,
                  last_verification, context_overflow, context_percent, tokens_in,
                  proc, proc_rc, term_requested, guard_fired, guard_saved,
                  run_state, fileVars, histVars, dashVars, restVars >>

\* the Worker process ends with return code rc, while the Controller reads
\* its output or after the Controller has died in wait(timeout=10)
WorkerExit(rc) ==
  /\ proc = "alive"
  /\ pc \in {"stream", "crashed"}
  /\ proc' = "exited"
  /\ proc_rc' = rc
  /\ UNCHANGED << pc, running, session_count, is_first, exit_code, prompt, baseline,
                  last_verification, context_overflow, context_percent, tokens_in,
                  term_requested, pipe, guard_fired, guard_saved, run_state,
                  fileVars, histVars, dashVars, restVars >>

\* "Set status to COMPLETED if ALL tasks are done" (or back to WORKING)
WorkerSetStatus(st) ==
  /\ WorkerAlive
  /\ cp_file.kind = "json"
  /\ Load(cp_file).status # st
  /\ cp_file' = Document([Load(cp_file) EXCEPT !.status = st])
  /\ UNCHANGED << loopVars, tasks, val, disk, cli_present, histVars, dashVars, restVars >>

\* "edit .a1/tasks.json: change status ... to done"
WorkerCompleteTask(i) ==
  /\ WorkerAlive
  /\ tasks[i].status = "pending"
  /\ tasks' = [tasks EXCEPT ![i].status = "done"]
  /\ UNCHANGED << loopVars, cp_file, val, disk, cli_present, histVars, dashVars, restVars >>

\* an edit of the project that makes check n fail, or repairs it
WorkerEditProject(n) ==
  /\ WorkerAlive
  /\ val' = [val EXCEPT ![n] = IF @ = "ok" THEN "fail" ELSE "ok"]
  /\ UNCHANGED << loopVars, cp_file, tasks, disk, cli_present, histVars, dashVars, restVars >>

(***************************************************************************)
(* After the session (start(), lines 1087-1142).                           *)
(***************************************************************************)
\* lines 1087-1092: save the session metrics
SaveMetrics ==
  /\ pc = "post_session"
  /\ cp_file' = Save(MetricsRecord(cp_file, context_percent, tokens_in))
  /\ archive' = Archive(archive, MetricsRecord(cp_file, context_percent, tokens_in))
  /\ pc' = "verify"
  /\ UNCHANGED << running, session_count, is_first, exit_code, prompt, baseline,
                  last_verification, context_overflow, context_percent, tokens_in,
                  proc, proc_rc, term_requested, pipe, guard_fired, guard_saved,
                  run_state, tasks, val, disk, cli_present, histVars, dashVars, storeVars, queueVars, checkVars, decisionVars, taskVars, providerVars >>

\* lines 1095-1096: verify, and remember the result
Verify ==
  /\ pc = "verify"
  /\ LET verification == VerifySession(val, baseline, cp_file, tasks, disk) IN
       /\ last_verification' = Some(verification)
       /\ tests_streak' = IF "tests" \in verification.blocking_issues
                          THEN tests_streak + 1 ELSE 0
  /\ pc' = "decide"
  /\ UNCHANGED << running, session_count, is_first, exit_code, prompt, baseline,
                  context_overflow, context_percent, tokens_in, proc, proc_rc,
                  term_requested, pipe, guard_fired, guard_saved, run_state,
                  fileVars, decision, interrupted, dashVars, restVars >>

\* mutant of RunFinished: the verification is not consulted
RunFinished_StatusOnly(file, verification) == IsCompleted(file)

\* line 1099-1100: the run is finished
RunFinished(file, verification) == IsCompleted(file) /\ verification.passed

\* lines 1099-1111: COMPLETED and verified: leave the loop
DecideFinished ==
  /\ pc = "decide"
  /\ RunFinished(cp_file, last_verification[1])
  /\ pc' = "done"
  /\ run_state' = "COMPLETED"
  /\ decision' = "finished"
  /\ UNCHANGED << running, session_count, is_first, exit_code, prompt, baseline,
                  last_verification, context_overflow, context_percent, tokens_in,
                  proc, proc_rc, term_requested, pipe, guard_fired, guard_saved,
                  fileVars, tests_streak, interrupted, dashVars, restVars >>

\* lines 1112-1127: COMPLETED but verification failed: reset to WORKING
DecideMismatch ==
  /\ pc = "decide"
  /\ IsCompleted(cp_file)
  /\ ~last_verification[1].passed
  /\ cp_file' = Save(MismatchRecord(cp_file, last_verification[1]))
  /\ archive' = Archive(archive, MismatchRecord(cp_file, last_verification[1]))
  /\ decision' = "mismatch"
  /\ pc' = "interrupt_check"
  /\ UNCHANGED << running, session_count, is_first, exit_code, prompt, baseline,
                  last_verification, context_overflow, context_percent, tokens_in,
                  proc, proc_rc, term_requested, pipe, guard_fired, guard_saved,
                  run_state, tasks, val, disk, cli_present, tests_streak, interrupted, dashVars, storeVars, queueVars, checkVars, decisionVars, taskVars, providerVars >>

\* line 1099: the checkpoint is not COMPLETED
DecideContinue ==
  /\ pc = "decide"
  /\ ~IsCompleted(cp_file)
  /\ decision' = "continue"
  /\ pc' = "interrupt_check"
  /\ UNCHANGED << running, session_count, is_first, exit_code, prompt, baseline,
                  last_verification, context_overflow, context_percent, tokens_in,
                  proc, proc_rc, term_requested, pipe, guard_fired, guard_saved,
                  run_state, fileVars, tests_streak, interrupted, dashVars, restVars >>

\* lines 1130-1142: no interrupt; sleep when still running
NoInterrupt ==
  /\ pc = "interrupt_check"
  /\ exit_code # 130
  /\ pc' = "loop"
  /\ UNCHANGED << running, session_count, is_first, exit_code, prompt, baseline,
                  last_verification, context_overflow, context_percent, tokens_in,
                  proc, proc_rc, term_requested, pipe, guard_fired, guard_saved,
                  run_state, fileVars, histVars, dashVars, restVars >>

\* lines 1130-1136: exit code 130, the operator answers "y"
OperatorContinue ==
  /\ pc = "interrupt_check"
  /\ exit_code = 130
  /\ running' = TRUE
  /\ pc' = "loop"
  /\ interrupted' = FALSE
  /\ UNCHANGED << session_count, is_first, exit_code, prompt, baseline,
                  last_verification, context_overflow, context_percent, tokens_in,
                  proc, proc_rc, term_requested, pipe, guard_fired, guard_saved,
                  run_state, fileVars, tests_streak, decision, dashVars, restVars >>

\* lines 1130-1135: exit code 130, the operator answers anything else
OperatorDecline ==
  /\ pc = "interrupt_check"
  /\ exit_code = 130
  /\ pc' = "done"
  /\ run_state' = "STOPPED"
  /\ interrupted' = FALSE
  /\ UNCHANGED << running, session_count, is_first, exit_code, prompt, baseline,
                  last_verification, context_overflow, context_percent, tokens_in,
                  proc, proc_rc, term_requested, pipe, guard_fired, guard_saved,
                  fileVars, tests_streak, decision, dashVars, restVars >>

\* SessionLoop.stop, called by the dashboard: clear the flag, terminate the
\* Worker when there is a process object
Stop ==
  /\ pc \notin {"done", "crashed"}
  /\ running' = FALSE
  /\ term_requested' = IF proc # "none" THEN TRUE ELSE term_requested
  /\ UNCHANGED << pc, session_count, is_first, exit_code, prompt, baseline,
                  last_verification, context_overflow, context_percent, tokens_in,
                  proc, proc_rc, pipe, guard_fired, guard_saved, run_state,
                  fileVars, histVars, dashVars, restVars >>

\* SessionLoop._handle_interrupt, the SIGINT/SIGTERM handler
HandleInterrupt ==
  /\ pc \notin {"done", "crashed"}
  /\ running' = FALSE
  /\ term_requested' = IF proc # "none" THEN TRUE ELSE term_requested
  /\ interrupted' = (interrupted \/ (pc = "stream" /\ proc # "none"))
  /\ UNCHANGED << pc, session_count, is_first, exit_code, prompt, baseline,
                  last_verification, context_overflow, context_percent, tokens_in,
                  proc, proc_rc, pipe, guard_fired, guard_saved, run_state,
                  fileVars, tests_streak, decision, dashVars, restVars >>

\* the Controller's own steps, and the requests that reach it
LoopStep ==
  \/ StartRun
  \/ LoopEnter
  \/ LoopExit
  \/ StartSession
  \/ BuildPrompt
  \/ SpawnWorker
  \/ WorkerNotFound
  \/ ReadLine
  \/ GuardTerminate
  \/ GuardTimeout
  \/ ReadEOF
  \/ SaveMetrics
  \/ Verify
  \/ DecideFinished
  \/ DecideMismatch
  \/ DecideContinue
  \/ NoInterrupt
  \/ OperatorContinue
  \/ OperatorDecline
  \/ Stop
  \/ HandleInterrupt

(***************************************************************************)
(* Spec: a run whose Worker edits the project, the tasks and the           *)
(* checkpoint status freely and reports either no usage or a usage above   *)
(* the threshold.  The project starts with its tests passing or failing;   *)
(* the checks the Worker of Spec does not touch pass.                       *)
(***************************************************************************)
InitSpec ==
  /\ Init
  /\ \A n \in MutableChecks \ WorkerChecks : val[n] = "ok"

Next ==
  \/ LoopStep
  \/ \E t \in SpecTokenValues : WorkerEmitUsage(t)
  \/ \E rc \in ExitCodes : WorkerExit(rc)
  \/ \E st \in {"WORKING", "COMPLETED"} : WorkerSetStatus(st)
  \/ \E i \in DOMAIN tasks : WorkerCompleteTask(i)
  \/ \E n \in WorkerChecks : WorkerEditProject(n)

Spec == InitSpec /\ [][Next]_vars

(***************************************************************************)
(* SpecResume: the run of Spec, and after it has ended a second run on the *)
(* same project directory: a new SessionLoop whose start() finds the       *)
(* Checkpoint, the tasks and the project as the first run left them.       *)
(***************************************************************************)
\* SessionLoop.__init__ and start(), lines 1047-1060, of a run that resumes
\* after one that ended within its first session
ResumeRun ==
  /\ pc = "done"
  /\ GetSessionNumber(cp_file) = 1
  /\ pc' = "loop"
  /\ running' = TRUE
  /\ session_count' = 0
  /\ is_first' = FALSE
  /\ exit_code' = 0
  /\ prompt' = None
  /\ baseline' = Some(val)
  /\ last_verification' = None
  /\ context_overflow' = FALSE
  /\ context_percent' = 0
  /\ tokens_in' = 0
  /\ proc' = "none"
  /\ proc_rc' = 0
  /\ term_requested' = FALSE
  /\ pipe' = << >>
  /\ guard_fired' = << >>
  /\ guard_saved' = 0
  /\ run_state' = "RUNNING"
  /\ tests_streak' = 0
  /\ decision' = "none"
  /\ interrupted' = FALSE
  /\ UNCHANGED << fileVars, dashVars, restVars >>

NextResume ==
  \/ Next
  \/ ResumeRun

SpecResume == InitSpec /\ [][NextResume]_vars

(***************************************************************************)
(* SpecGuard: the same run seen at the stream: the Worker reports every    *)
(* usage of TokenValues, in any order, and sets the checkpoint status; the *)
(* project starts with every check passing and is not edited.              *)
(***************************************************************************)
InitGuard ==
  /\ Init
  /\ \A n \in MutableChecks : val[n] = "ok"

NextGuard ==
  \/ LoopStep
  \/ \E t \in TokenValues : WorkerEmitUsage(t)
  \/ \E rc \in ExitCodes : WorkerExit(rc)
  \/ \E st \in {"WORKING", "COMPLETED"} : WorkerSetStatus(st)

SpecGuard == InitGuard /\ [][NextGuard]_vars

(***************************************************************************)
(* SpecProviders: the run of SpecGuard with each provider run_session      *)
(* knows, and with a self.provider it does not know.  claude-api and       *)
(* ollama run the session inside the Controller's process.  What a         *)
(* provider needs to start (cli_present) is decided by the process's       *)
(* environment and installed modules, which the run does not change.       *)
(***************************************************************************)
\* run_session, lines 538-546
Providers == {"claude-max", "claude-api", "ollama", "unknown"}

\* lines 544-546 (unknown provider), 789-802 (_run_claude_api without a key
\* or without the SDK) and 960-964 (_run_ollama without the SDK): return 1
ProviderNotStarted ==
  /\ pc = "run_session"
  /\ \/ provider = "unknown"
     \/ provider \in {"claude-api", "ollama"} /\ ~cli_present
  /\ exit_code' = 1
  /\ prompt' = None
  /\ pc' = "post_session"
  /\ UNCHANGED << running, session_count, is_first, baseline, last_verification,
                  context_overflow, context_percent, tokens_in, proc, proc_rc,
                  term_requested, pipe, guard_fired, guard_saved, run_state,
                  fileVars, histVars, dashVars, restVars >>

\* _run_claude_api, lines 804-828, and _run_ollama, lines 966-983: reset the
\* metrics
ProviderStart ==
  /\ pc = "run_session"
  /\ provider \in {"claude-api", "ollama"}
  /\ cli_present
  /\ context_overflow' = FALSE
  /\ context_percent' = 0
  /\ tokens_in' = InitialTokens(tokens_in)
  /\ guard_fired' = << >>
  /\ guard_saved' = 0
  /\ pc' = "turns"
  /\ UNCHANGED << running, session_count, is_first, exit_code, prompt, baseline,
                  last_verification, proc, proc_rc, term_requested, pipe,
                  run_state, fileVars, histVars, dashVars, restVars >>

\* _run_claude_api, lines 832-924: a turn whose response reports
\* input_tokens = t and which is followed by another turn
ApiTurn(t) ==
  /\ pc = "turns"
  /\ provider = "claude-api"
  /\ running
  /\ ~GuardTriggers(t, context_overflow)
  /\ tokens_in' = t
  /\ context_percent' = t
  /\ UNCHANGED << pc, running, session_count, is_first, exit_code, prompt, baseline,
                  last_verification, context_overflow, proc, proc_rc,
                  term_requested, pipe, guard_fired, guard_saved, run_state,
                  fileVars, histVars, dashVars, restVars >>

\* _run_claude_api, lines 832-901 and 942-944: a turn at which the guard
\* fires: checkpoint, break, return 0
ApiGuard(t) ==
  /\ pc = "turns"
  /\ provider = "claude-api"
  /\ running
  /\ GuardTriggers(t, context_overflow)
  /\ tokens_in' = t
  /\ context_percent' = t
  /\ context_overflow' = TRUE
  /\ guard_fired' = Append(guard_fired, t)
  /\ guard_saved' = guard_saved + 1
  /\ cp_file' = Save(ContextCheckpoint(cp_file, t, t))
  /\ archive' = Archive(archive, ContextCheckpoint(cp_file, t, t))
  /\ exit_code' = 0
  /\ prompt' = None
  /\ pc' = "post_session"
  /\ UNCHANGED << running, session_count, is_first, baseline, last_verification,
                  proc, proc_rc, term_requested, pipe, run_state, tasks, val,
                  disk, cli_present, histVars, dashVars, storeVars, queueVars,
                  checkVars, decisionVars, taskVars, providerVars >>

\* _run_ollama, lines 996-1011: the chunk with done = true reports
\* prompt_eval_count = t; _context_percent is not touched
OllamaDone(t) ==
  /\ pc = "turns"
  /\ provider = "ollama"
  /\ running
  /\ tokens_in' = t
  /\ UNCHANGED << pc, running, session_count, is_first, exit_code, prompt, baseline,
                  last_verification, context_overflow, context_percent, proc,
                  proc_rc, term_requested, pipe, guard_fired, guard_saved,
                  run_state, fileVars, histVars, dashVars, restVars >>

\* lines 926-944 and 1032-1043: the session ends, with an exception (1) or
\* without (0)
ProviderReturn(rc) ==
  /\ pc = "turns"
  /\ exit_code' = rc
  /\ prompt' = None
  /\ pc' = "post_session"
  /\ UNCHANGED << running, session_count, is_first, baseline, last_verification,
                  context_overflow, context_percent, tokens_in, proc, proc_rc,
                  term_requested, pipe, guard_fired, guard_saved, run_state,
                  fileVars, histVars, dashVars, restVars >>

InitProviders ==
  /\ InitExceptTasks
  /\ provider \in Providers
  /\ tasks = InitTasks
  /\ next_id = Len(InitTasks) + 1
  /\ \A n \in MutableChecks : val[n] = "ok"

NextProviders ==
  \/ NextGuard
  \/ ProviderNotStarted
  \/ ProviderStart
  \/ \E t \in TokenValues : ApiTurn(t)
  \/ \E t \in TokenValues : ApiGuard(t)
  \/ \E t \in TokenValues : OllamaDone(t)
  \/ \E rc \in {0, 1} : ProviderReturn(rc)

SpecProviders == InitProviders /\ [][NextProviders]_vars

(***************************************************************************)
(* SpecLive: SpecGuard with the scheduling that makes a run advance: the   *)
(* loop thread keeps executing, the operator answers the continue/stop     *)
(* question, and every Worker process exits.                               *)
(***************************************************************************)
\* a step of the loop thread itself (not a request that reaches it)
Progress == LoopStep /\ (pc' # pc \/ pipe' # pipe)

SpecLive ==
  /\ InitGuard
  /\ [][NextGuard]_vars
  /\ WF_vars(Progress)
  /\ WF_vars(\E rc \in ExitCodes : WorkerExit(rc))

(***************************************************************************)
(* SpecVerify: one call of _verify_session on every combination of its     *)
(* inputs: what the Validator reports, the baseline, the checkpoint        *)
(* (status, files_modified, the persisted last_verification), the tasks    *)
(* and the files on disk.                                                  *)
(***************************************************************************)
\* the last_verification records a checkpoint may hold (lines 1120-1126)
StoredVerifications ==
  {None} \cup
  {Some([ passed          |-> p,
          blocking_issues |-> {"tests"},
          warnings        |-> {},
          retry_count     |-> r,
          session         |-> 1 ]) : p \in BOOLEAN, r \in 0..MaxStoredRetry}

\* the checkpoints _verify_session may load after a session
VerifyCheckpoints ==
  {[CreateInitial EXCEPT !.status = st, !.session = 1, !.files_modified = fm,
                         !.last_verification = lv] :
     st \in {"WORKING", "COMPLETED"}, fm \in SUBSET Files,
     lv \in StoredVerifications}

\* the task documents: every combination of pending and done
VerifyTasks ==
  {[i \in DOMAIN InitTasks |-> [InitTasks[i] EXCEPT !.status = st[i]]] :
     st \in [DOMAIN InitTasks -> {"pending", "done"}]}

InitVerify ==
  /\ pc = "verify"
  /\ running = TRUE
  /\ session_count = 1
  /\ is_first = TRUE
  /\ exit_code = 0
  /\ prompt = None
  /\ baseline \in {Some(v) : v \in ValStates}
  /\ last_verification = None
  /\ context_overflow = FALSE
  /\ context_percent = 0
  /\ tokens_in = 0
  /\ proc = "none"
  /\ proc_rc = 0
  /\ term_requested = FALSE
  /\ pipe = << >>
  /\ guard_fired = << >>
  /\ guard_saved = 0
  /\ run_state = "RUNNING"
  /\ cp_file \in {Save(c) : c \in VerifyCheckpoints}
  /\ tasks \in VerifyTasks
  /\ val \in ValStates
  /\ disk \in SUBSET Files
  /\ cli_present = TRUE
  /\ tests_streak = 0
  /\ decision = "none"
  /\ interrupted = FALSE
  /\ AGENT_RUNNING = FALSE
  /\ AGENT_LOOP = 0
  /\ agents = [i \in 1..MaxLoops |-> Unborn]
  /\ archive = << >>
  /\ saved = None
  /\ loaded = None
  /\ started = 0
  /\ queue_file = << >>
  /\ enq_local = None
  /\ drain_local = None
  /\ delivered = [m \in 1..MaxMessages |-> 0]
  /\ enqueued = {}
  /\ commands = None
  /\ cp_decisions = << >>
  /\ next_id = Len(InitTasks) + 1
  /\ last_call = NoCall
  /\ provider = "claude-max"

NextVerify == Verify

SpecVerify == InitVerify /\ [][NextVerify]_vars

(***************************************************************************)
(* SpecStore: a caller of the Checkpoint Store that saves records and      *)
(* loads them back, over a checkpoint document that anything may have      *)
(* written.                                                                *)
(***************************************************************************)
\* the records handed to save()
StoreRecords ==
  {[ status            |-> st,
     session           |-> n,
     context_percent   |-> 0,
     files_modified    |-> fm,
     last_verification |-> lv,
     session_metrics   |-> sm,
     updated_at        |-> at ] :
     st \in {"WORKING", "COMPLETED"}, n \in 0..MaxSessions, fm \in SUBSET Files,
     lv \in {None, Some([ passed          |-> FALSE,
                          blocking_issues |-> {"tests"},
                          warnings        |-> {Warning("lint", TRUE)},
                          retry_count     |-> 2,
                          session         |-> 1 ])},
     sm \in {None, Some(140000)}, at \in {"caller", "save"}}

\* the documents load() may find: no file, a file that is not JSON, a file
\* that cannot be read, bytes that are not text, the JSON values null and
\* [], a record
StoreDocuments ==
  {[kind |-> k, data |-> JNull] :
     k \in {"missing", "malformed", "unreadable", "undecodable"}}
  \cup {[kind |-> "json", data |-> JNull], [kind |-> "json", data |-> JArr({})]}
  \cup {Document(CreateInitial)}

\* the number of save() calls that wrote the archive
RECURSIVE Saves(_)
Saves(arch) ==
  IF DOMAIN arch = {} THEN 0
  ELSE LET f == CHOOSE g \in DOMAIN arch : TRUE IN
         arch[f] + Saves([g \in DOMAIN arch \ {f} |-> arch[g]])

\* something other than save() writes or removes checkpoint.json
StoreWrite(doc) ==
  /\ cp_file # doc
  /\ cp_file' = doc
  /\ saved' = None
  /\ loaded' = None
  /\ UNCHANGED << loopVars, tasks, val, disk, cli_present, histVars, dashVars,
                  archVars, started, queueVars, checkVars, decisionVars, taskVars, providerVars >>

\* CheckpointManager.save(c)
StoreSave(c) ==
  /\ Saves(archive) < MaxSaves
  /\ cp_file' = Save(c)
  /\ archive' = Archive(archive, c)
  /\ saved' = Some(c)
  /\ loaded' = None
  /\ UNCHANGED << loopVars, tasks, val, disk, cli_present, histVars, dashVars,
                  started, queueVars, checkVars, decisionVars, taskVars, providerVars >>

\* CheckpointManager.load()
StoreLoad ==
  /\ loaded = None
  /\ loaded' = Some(LoadResult(cp_file))
  /\ UNCHANGED << loopVars, fileVars, histVars, dashVars, archVars, saved,
                  started, queueVars, checkVars, decisionVars, taskVars, providerVars >>

InitStore ==
  /\ Init
  /\ \A n \in MutableChecks : val[n] = "ok"
  /\ cli_present

NextStore ==
  \/ \E doc \in StoreDocuments : StoreWrite(doc)
  \/ \E c \in StoreRecords : StoreSave(c)
  \/ StoreLoad

SpecStore == InitStore /\ [][NextStore]_vars

(***************************************************************************)
(* SpecValidator: one _verify_session whose Validator commands end in      *)
(* every way: exit statuses, timeouts, executables that are not found.     *)
(***************************************************************************)
\* the ways a command of the Validator may end (5: pytest found no tests)
CommandOutcomes == {Exit(0), Exit(1), Exit(5), TimedOut, NotFound}

\* the outcomes of the commands of one run_all: py_compile for every *.py
\* file of the project (none, or a.py), pytest, unittest, ruff, flake8
CommandRuns ==
  [ py_compile : UNION {[fs -> CommandOutcomes \ {Exit(5)}] : fs \in SUBSET Files},
    pytest     : CommandOutcomes,
    unittest   : CommandOutcomes \ {Exit(5)},
    ruff       : CommandOutcomes \ {Exit(5)},
    flake8     : {Exit(0), NotFound} ]

\* lines 290-291: _verify_session runs the Validator, whose commands end as c
ValidatorRunAll(c) ==
  /\ pc = "verify"
  /\ commands = None
  /\ commands' = Some(c)
  /\ val' = RunAll(c)
  /\ UNCHANGED << loopVars, cp_file, tasks, disk, cli_present, histVars,
                  dashVars, archVars, storeVars, queueVars, decisionVars, taskVars, providerVars >>

\* lines 293-383: the rest of _verify_session, on the reports of run_all
ValidatorVerify ==
  /\ commands # None
  /\ Verify

InitValidator ==
  /\ InitVerify
  /\ cp_file = Save([CreateInitial EXCEPT !.status = "WORKING", !.session = 1])
  /\ tasks = InitTasks
  /\ val = [n \in CheckNames |-> IF n = "build" THEN "skip" ELSE "ok"]
  /\ disk = {}

NextValidator ==
  \/ \E c \in CommandRuns : ValidatorRunAll(c)
  \/ ValidatorVerify

SpecValidator == InitValidator /\ [][NextValidator]_vars

(***************************************************************************)
(* SpecSession: the session number of the Checkpoint over the sessions of  *)
(* one or more runs.  Between two sessions the checkpoint document may be   *)
(* left unusable: the Worker edits it as its prompt tells it to, and a     *)
(* process killed inside save() leaves the file truncated by open(.., "w"). *)
(* session_count counts the sessions started.                              *)
(***************************************************************************)
\* the documents a damaged checkpoint.json may be: removed, or not JSON
DamagedDocuments == {MissingFile, [kind |-> "malformed", data |-> JNull]}

\* the loop's next iteration: session_count += 1 and start_session()
SessionStart ==
  /\ session_count < MaxSessions
  /\ session_count' = session_count + 1
  /\ cp_file' = Save(StartSessionRecord(cp_file))
  /\ archive' = Archive(archive, StartSessionRecord(cp_file))
  /\ started' = StartSessionRecord(cp_file).session
  /\ UNCHANGED << pc, running, is_first, exit_code, prompt, baseline,
                  last_verification, context_overflow, context_percent,
                  tokens_in, proc, proc_rc, term_requested, pipe, guard_fired,
                  guard_saved, run_state, tasks, val, disk, cli_present,
                  histVars, dashVars, saved, loaded, queueVars, checkVars, decisionVars, taskVars, providerVars >>

\* the guard's _save_context_checkpoint during the session, at t input tokens
SessionGuardCheckpoint(t) ==
  /\ session_count > 0
  /\ Saves(archive) < MaxSessions + MaxSaves
  /\ cp_file # Save(ContextCheckpoint(cp_file, t, t))
  /\ cp_file' = Save(ContextCheckpoint(cp_file, t, t))
  /\ archive' = Archive(archive, ContextCheckpoint(cp_file, t, t))
  /\ UNCHANGED << loopVars, tasks, val, disk, cli_present, histVars, dashVars,
                  storeVars, queueVars, checkVars, decisionVars, taskVars, providerVars >>

\* the Worker, or a crash inside save(), leaves checkpoint.json unusable
SessionDamage(doc) ==
  /\ session_count > 0
  /\ cp_file # doc
  /\ cp_file' = doc
  /\ UNCHANGED << loopVars, tasks, val, disk, cli_present, histVars, dashVars,
                  restVars >>

InitSession ==
  /\ Init
  /\ \A n \in MutableChecks : val[n] = "ok"
  /\ cli_present

NextSession ==
  \/ SessionStart
  \/ \E t \in TokenValues : SessionGuardCheckpoint(t)
  \/ \E doc \in DamagedDocuments : SessionDamage(doc)

SpecSession == InitSession /\ [][NextSession]_vars

(***************************************************************************)
(* SpecDecisions: the "decisions" list of the checkpoint document under    *)
(* the writes of the Checkpoint Store and of the Worker, whose prompt      *)
(* tells it to set "decisions" in .a1/checkpoint.json itself.  A decision  *)
(* is the number it was made as: 1, 2, 3, ...                              *)
(***************************************************************************)
\* decisions[-20:]
Capped(decisions) ==
  IF Len(decisions) <= DECISIONS_KEPT THEN decisions
  ELSE SubSeq(decisions, Len(decisions) - DECISIONS_KEPT + 1, Len(decisions))

\* how many decisions have been made
Made(decisions) == IF decisions = << >> THEN 0 ELSE decisions[Len(decisions)]

\* the next k decisions
NewDecisions(decisions, k) == [i \in 1..k |-> Made(decisions) + i]

\* CheckpointManager.end_session with the defaults but decisions: the record
EndSessionRecord(file) == [Load(file) EXCEPT !.context_percent = 0]

\* CheckpointManager.mark_completed: the record
MarkCompletedRecord(file) == [Load(file) EXCEPT !.status = "COMPLETED"]

\* the Worker edits checkpoint.json: k more decisions
DecisionsWorkerWrite(k) ==
  /\ Made(cp_decisions) + k <= MaxDecisions
  /\ cp_decisions' = cp_decisions \o NewDecisions(cp_decisions, k)
  /\ UNCHANGED << loopVars, fileVars, histVars, dashVars, archVars, storeVars,
                  queueVars, checkVars, taskVars, providerVars >>

\* CheckpointManager.start_session
DecisionsStartSession ==
  /\ Saves(archive) < MaxSaves
  /\ cp_file' = Save(StartSessionRecord(cp_file))
  /\ archive' = Archive(archive, StartSessionRecord(cp_file))
  /\ UNCHANGED << loopVars, tasks, val, disk, cli_present, histVars, dashVars,
                  storeVars, queueVars, checkVars, decisionVars, taskVars, providerVars >>

\* CheckpointManager.end_session(decisions = the next k decisions)
DecisionsEndSession(k) ==
  /\ Saves(archive) < MaxSaves
  /\ Made(cp_decisions) + k <= MaxDecisions
  /\ cp_decisions' = IF k > 0
                     THEN Capped(cp_decisions \o NewDecisions(cp_decisions, k))
                     ELSE cp_decisions
  /\ cp_file' = Save(EndSessionRecord(cp_file))
  /\ archive' = Archive(archive, EndSessionRecord(cp_file))
  /\ UNCHANGED << loopVars, tasks, val, disk, cli_present, histVars, dashVars,
                  storeVars, queueVars, checkVars, taskVars, providerVars >>

\* CheckpointManager.mark_completed
DecisionsMarkCompleted ==
  /\ Saves(archive) < MaxSaves
  /\ cp_file' = Save(MarkCompletedRecord(cp_file))
  /\ archive' = Archive(archive, MarkCompletedRecord(cp_file))
  /\ UNCHANGED << loopVars, tasks, val, disk, cli_present, histVars, dashVars,
                  storeVars, queueVars, checkVars, decisionVars, taskVars, providerVars >>

\* SessionLoop._save_context_checkpoint at t input tokens
DecisionsGuardCheckpoint(t) ==
  /\ Saves(archive) < MaxSaves
  /\ Made(cp_decisions) + 1 <= MaxDecisions
  /\ cp_decisions' = Capped(cp_decisions \o NewDecisions(cp_decisions, 1))
  /\ cp_file' = Save(ContextCheckpoint(cp_file, t, t))
  /\ archive' = Archive(archive, ContextCheckpoint(cp_file, t, t))
  /\ UNCHANGED << loopVars, tasks, val, disk, cli_present, histVars, dashVars,
                  storeVars, queueVars, checkVars, taskVars, providerVars >>

InitDecisions ==
  /\ Init
  /\ \A n \in MutableChecks : val[n] = "ok"
  /\ cli_present

NextDecisions ==
  \/ \E k \in 1..MaxDecisions : DecisionsWorkerWrite(k)
  \/ DecisionsStartSession
  \/ \E k \in 0..2 : DecisionsEndSession(k)
  \/ DecisionsMarkCompleted
  \/ \E t \in SpecTokenValues : DecisionsGuardCheckpoint(t)

SpecDecisions == InitDecisions /\ [][NextDecisions]_vars

(***************************************************************************)
(* SpecTasks: the Task Store from a project without tasks.json, under any  *)
(* sequence of add_task, update_task(priority=..) and reorder_tasks.       *)
(***************************************************************************)
\* TaskManager.add_task
TaskAdd ==
  /\ Len(tasks) < MaxTasks
  /\ tasks' = AddTask(tasks, next_id)
  /\ next_id' = NextId(next_id)
  /\ last_call' = [op |-> "add", ids |-> << >>, ret |-> next_id]
  /\ UNCHANGED << loopVars, cp_file, val, disk, cli_present, histVars, dashVars,
                  archVars, storeVars, queueVars, checkVars, decisionVars, providerVars >>

\* TaskManager.update_task(task_id, priority=p)
TaskUpdate(id, p) ==
  /\ tasks' = UpdatePriority(tasks, id, p)
  /\ last_call' = [op |-> "update", ids |-> << id >>,
                   ret |-> IF IndexOf(tasks, id) = 0 THEN 0 ELSE id]
  /\ UNCHANGED << loopVars, cp_file, val, disk, cli_present, histVars, dashVars,
                  archVars, storeVars, queueVars, checkVars, decisionVars,
                  next_id, providerVars >>

\* TaskManager.reorder_tasks(task_ids)
TaskReorder(task_ids) ==
  /\ tasks' = ReorderTasks(tasks, task_ids)
  /\ last_call' = [op |-> "reorder", ids |-> task_ids, ret |-> 0]
  /\ UNCHANGED << loopVars, cp_file, val, disk, cli_present, histVars, dashVars,
                  archVars, storeVars, queueVars, checkVars, decisionVars,
                  next_id, providerVars >>

InitTaskStore ==
  /\ InitExceptTasks
  /\ provider = "claude-max"
  /\ \A n \in MutableChecks : val[n] = "ok"
  /\ cli_present
  /\ tasks = << >>
  /\ next_id = 1

NextTaskStore ==
  \/ TaskAdd
  \/ \E id \in 1..MaxTasks, p \in {0, MaxPriority} : TaskUpdate(id, p)
  \/ \E task_ids \in ReorderArgs : TaskReorder(task_ids)

SpecTasks == InitTaskStore /\ [][NextTaskStore]_vars

(***************************************************************************)
(* SpecNext: get_next_task on the task documents a tasks.json can hold.    *)
(***************************************************************************)
\* Task.status
TaskStatuses == {"pending", "in_progress", "done", "blocked"}

\* Task.priority: unset (0), the first two places, and the last one
TaskPriorities == {0, 1, 2, MaxPriority}

\* a task list of a tasks.json written by add_task and update_task: n tasks
\* with the ids 1..n, the statuses st and the priorities pr
TaskDocument(n, st, pr) ==
  [i \in 1..n |-> [id |-> i, status |-> st[i], priority |-> pr[i],
                   success_criteria |-> "none"]]

\* TaskManager.get_next_task
TaskNext ==
  /\ last_call = NoCall
  /\ tasks' = LoadData(tasks)
  /\ last_call' = [op |-> "next", ids |-> << >>, ret |-> GetNextTask(tasks)]
  /\ UNCHANGED << loopVars, cp_file, val, disk, cli_present, histVars, dashVars,
                  archVars, storeVars, queueVars, checkVars, decisionVars,
                  next_id, providerVars >>

InitNext ==
  /\ InitExceptTasks
  /\ provider = "claude-max"
  /\ \A n \in MutableChecks : val[n] = "ok"
  /\ cli_present
  /\ \E n \in 0..MaxTasks :
       \E st \in [1..n -> TaskStatuses], pr \in [1..n -> TaskPriorities] :
          tasks = TaskDocument(n, st, pr)
  /\ next_id = Len(tasks) + 1

NextNext == TaskNext

SpecNext == InitNext /\ [][NextNext]_vars

(***************************************************************************)
(* SpecStatus: the statuses of the tasks under the Task Store operations   *)
(* of a run: add_task, start_task, complete_task, update_task(priority=..) *)
(* and reorder_tasks, in any order.  Neither SessionLoop.start nor any     *)
(* other caller looks at the tasks in progress before a task is started.   *)
(***************************************************************************)
\* TaskManager.start_task(task_id)
TaskStart(id) ==
  /\ IndexOf(tasks, id) # 0
  /\ tasks[IndexOf(tasks, id)].status = "pending"
  /\ tasks' = UpdateStatus(tasks, id, "in_progress")
  /\ last_call' = [op |-> "start", ids |-> << id >>, ret |-> id]
  /\ UNCHANGED << loopVars, cp_file, val, disk, cli_present, histVars, dashVars,
                  archVars, storeVars, queueVars, checkVars, decisionVars,
                  next_id, providerVars >>

\* TaskManager.complete_task(task_id)
TaskComplete(id) ==
  /\ IndexOf(tasks, id) # 0
  /\ tasks[IndexOf(tasks, id)].status = "in_progress"
  /\ tasks' = UpdateStatus(tasks, id, "done")
  /\ last_call' = [op |-> "complete", ids |-> << id >>, ret |-> id]
  /\ UNCHANGED << loopVars, cp_file, val, disk, cli_present, histVars, dashVars,
                  archVars, storeVars, queueVars, checkVars, decisionVars,
                  next_id, providerVars >>

\* TaskManager.reorder_tasks with the ids of all the tasks, as the dashboard
\* calls it
StatusReorder(task_ids) ==
  /\ task_ids \in PageOrders(tasks)
  /\ TaskReorder(task_ids)

NextStatus ==
  \/ TaskAdd
  \/ \E id \in 1..MaxTasks : TaskStart(id)
  \/ \E id \in 1..MaxTasks : TaskComplete(id)
  \/ \E id \in 1..MaxTasks : TaskUpdate(id, MaxPriority)
  \/ \E task_ids \in ReorderArgs : StatusReorder(task_ids)

SpecStatus == InitTaskStore /\ [][NextStatus]_vars

(***************************************************************************)
(* SpecQueue: the operator message queue .a1/queue.json, written by the    *)
(* dashboard's /queue-message handler and drained by the Controller each   *)
(* time it builds a prompt.  Both sides read the whole document, change    *)
(* their copy and write the whole document back; neither takes a lock, so  *)
(* each side's read and write are separate steps.  A message is its text;  *)
(* session_count counts the prompts built.                                 *)
(***************************************************************************)
\* the unread messages of a queue document, loop.py line 395
Unread(data) == {data[i].text : i \in {j \in 1..Len(data) : ~data[j].read}}

\* loop.py lines 398-400: every message of the copy marked read
MarkRead(data) == [i \in 1..Len(data) |-> [data[i] EXCEPT !.read = TRUE]]

\* how many times each message of the copy appears unread
UnreadCount(data, m) ==
  Cardinality({i \in 1..Len(data) : data[i].text = m /\ ~data[i].read})

\* /queue-message, dashboard.py lines 1400-1408: the handler reads the
\* queue document
EnqueueRead(m) ==
  /\ enq_local = None
  /\ m \notin enqueued
  /\ enq_local' = Some([text |-> m, queue_data |-> queue_file])
  /\ UNCHANGED << loopVars, fileVars, histVars, dashVars, archVars, storeVars, checkVars, decisionVars, taskVars,
                  queue_file, drain_local, delivered, enqueued, providerVars >>

\* /queue-message, dashboard.py lines 1409-1414: append to the copy and write
\* the document
EnqueueWrite ==
  /\ enq_local # None
  /\ queue_file' = Append(enq_local[1].queue_data,
                          [text |-> enq_local[1].text, read |-> FALSE])
  /\ enqueued' = enqueued \cup {enq_local[1].text}
  /\ enq_local' = None
  /\ UNCHANGED << loopVars, fileVars, histVars, dashVars, archVars, storeVars, checkVars, decisionVars, taskVars,
                  drain_local, delivered, providerVars >>

\* the loop's next iteration reaches build_prompt, and _read_queue_messages
\* reads the document (loop.py lines 389-397); with nothing unread it
\* returns "" and writes nothing
DrainRead ==
  /\ drain_local = None
  /\ session_count < MaxSessions
  /\ session_count' = session_count + 1
  /\ drain_local' = IF Unread(queue_file) = {} THEN None ELSE Some(queue_file)
  /\ UNCHANGED << pc, running, is_first, exit_code, prompt, baseline,
                  last_verification, context_overflow, context_percent,
                  tokens_in, proc, proc_rc, term_requested, pipe, guard_fired,
                  guard_saved, run_state, fileVars, histVars, dashVars,
                  archVars, storeVars, checkVars, decisionVars, taskVars, queue_file, enq_local, delivered,
                  enqueued, providerVars >>

\* _read_queue_messages, loop.py lines 398-407: the copy, all marked read, is
\* written back and its unread messages go into the prompt
DrainWrite ==
  /\ drain_local # None
  /\ queue_file' = MarkRead(drain_local[1])
  /\ delivered' = [m \in 1..MaxMessages |->
                     delivered[m] + UnreadCount(drain_local[1], m)]
  /\ drain_local' = None
  /\ UNCHANGED << loopVars, fileVars, histVars, dashVars, archVars, storeVars, checkVars, decisionVars, taskVars,
                  enq_local, enqueued, providerVars >>

InitQueue ==
  /\ Init
  /\ \A n \in MutableChecks : val[n] = "ok"
  /\ cli_present

NextQueue ==
  \/ \E m \in 1..MaxMessages : EnqueueRead(m)
  \/ EnqueueWrite
  \/ DrainRead
  \/ DrainWrite

SpecQueue == InitQueue /\ [][NextQueue]_vars

(***************************************************************************)
(* SpecDash: the dashboard.  The HTTP server handles one request at a      *)
(* time, so start_agent and stop_agent are atomic with respect to each     *)
(* other; the threads they spawn run concurrently with them.  Each thread  *)
(* runs its own SessionLoop, followed here through the steps the requests  *)
(* interleave with.                                                        *)
(***************************************************************************)
\* the thread the next start request would spawn
NextThread ==
  CHOOSE i \in 1..MaxLoops :
     agents[i].at = "unborn" /\ \A j \in 1..(i - 1) : agents[j].at # "unborn"

\* DashboardHandler.start_agent (POST /start)
start_agent ==
  /\ \E i \in 1..MaxLoops : agents[i].at = "unborn"
  /\ agents' = IF ~AGENT_RUNNING
                THEN [agents EXCEPT ![NextThread].at = "run"]
                ELSE agents
  /\ UNCHANGED << AGENT_RUNNING, AGENT_LOOP, loopVars, fileVars, histVars, restVars >>

\* SessionLoop.stop as the dashboard calls it on the loop AGENT_LOOP names
stop(agent) ==
  [agent EXCEPT !.running = FALSE,
                !.signalled = IF agent.process # "none" THEN TRUE ELSE @,
                !.stopped = TRUE]

\* DashboardHandler.stop_agent (POST /stop)
stop_agent ==
  /\ agents' = IF AGENT_LOOP # 0
                THEN [agents EXCEPT ![AGENT_LOOP] = stop(@)]
                ELSE agents
  /\ AGENT_RUNNING' = FALSE
  /\ UNCHANGED << AGENT_LOOP, loopVars, fileVars, histVars, restVars >>

\* run(), line 2506: the thread sets the flag
AgentRun(i) ==
  /\ agents[i].at = "run"
  /\ AGENT_RUNNING' = TRUE
  /\ agents' = [agents EXCEPT ![i].at = "construct"]
  /\ UNCHANGED << AGENT_LOOP, loopVars, fileVars, histVars, restVars >>

\* run(), lines 2508-2514: build the SessionLoop and publish it
AgentPublish(i) ==
  /\ agents[i].at = "construct"
  /\ AGENT_LOOP' = i
  /\ agents' = [agents EXCEPT ![i].at = "start", ![i].running = FALSE,
                               ![i].process = "none"]
  /\ UNCHANGED << AGENT_RUNNING, loopVars, fileVars, histVars, restVars >>

\* loop.start(), lines 1047-1060
AgentLoopStart(i) ==
  /\ agents[i].at = "start"
  /\ agents' = [agents EXCEPT ![i].at = "while", ![i].running = TRUE,
                               ![i].count = 0]
  /\ UNCHANGED << AGENT_RUNNING, AGENT_LOOP, loopVars, fileVars, histVars, restVars >>

\* line 1062 for the dashboard's loops
AgentLoopContinues(agent) == agent.running /\ agent.count < MaxDashSessions

\* lines 1062-1078: the loop condition holds, up to run_session
AgentLoopEnter(i) ==
  /\ agents[i].at = "while"
  /\ AgentLoopContinues(agents[i])
  /\ agents' = [agents EXCEPT ![i].at = "popen", ![i].count = @ + 1]
  /\ UNCHANGED << AGENT_RUNNING, AGENT_LOOP, loopVars, fileVars, histVars, restVars >>

\* lines 1062, 1144-1151: the loop condition fails, start() returns
AgentLoopExit(i) ==
  /\ agents[i].at = "while"
  /\ ~AgentLoopContinues(agents[i])
  /\ agents' = [agents EXCEPT ![i].at = "finally"]
  /\ UNCHANGED << AGENT_RUNNING, AGENT_LOOP, loopVars, fileVars, histVars, restVars >>

\* _run_claude_max, lines 570-583: Popen
AgentSpawn(i) ==
  /\ agents[i].at = "popen"
  /\ agents' = [agents EXCEPT ![i].at = "stream", ![i].process = "alive",
                               ![i].signalled = FALSE]
  /\ UNCHANGED << AGENT_RUNNING, AGENT_LOOP, loopVars, fileVars, histVars, restVars >>

\* the Worker process ends, by itself or on the signal terminate() sent
AgentWorkerExit(i) ==
  /\ agents[i].process = "alive"
  /\ agents' = [agents EXCEPT ![i].process = "exited"]
  /\ UNCHANGED << AGENT_RUNNING, AGENT_LOOP, loopVars, fileVars, histVars, restVars >>

\* _run_claude_max, lines 585-625: the read loop ends with the process
AgentSessionEnd(i) ==
  /\ agents[i].at = "stream"
  /\ agents[i].process = "exited"
  /\ agents' = [agents EXCEPT ![i].at = "verify", ![i].process = "none",
                               ![i].signalled = FALSE]
  /\ UNCHANGED << AGENT_RUNNING, AGENT_LOOP, loopVars, fileVars, histVars, restVars >>

\* start(), lines 1080-1142: metrics, verification, decision, delay; the
\* run either breaks out as finished or goes back to the loop condition
AgentAfterSession(i, finished) ==
  /\ agents[i].at = "verify"
  /\ agents' = [agents EXCEPT ![i].at = IF finished THEN "finally" ELSE "while"]
  /\ UNCHANGED << AGENT_RUNNING, AGENT_LOOP, loopVars, fileVars, histVars, restVars >>

\* run(), lines 2516-2519: the finally block
AgentFinally(i) ==
  /\ agents[i].at = "finally"
  /\ AGENT_RUNNING' = FALSE
  /\ AGENT_LOOP' = 0
  /\ agents' = [agents EXCEPT ![i].at = "dead"]
  /\ UNCHANGED << loopVars, fileVars, histVars, restVars >>

\* do_POST, lines 1341-1347: POST /add-task
post_add_task ==
  /\ Len(tasks) < MaxTasks
  /\ tasks' = AddTask(tasks, next_id)
  /\ next_id' = NextId(next_id)
  /\ last_call' = [op |-> "add", ids |-> << >>, ret |-> next_id]
  /\ UNCHANGED << loopVars, cp_file, val, disk, cli_present, histVars, dashVars,
                  archVars, storeVars, queueVars, checkVars, decisionVars, providerVars >>

\* do_POST, lines 1439-1446: POST /api/reorder
post_reorder(task_ids) ==
  /\ task_ids \in PageOrders(tasks)
  /\ tasks' = ReorderTasks(tasks, task_ids)
  /\ last_call' = [op |-> "reorder", ids |-> task_ids, ret |-> 0]
  /\ UNCHANGED << loopVars, cp_file, val, disk, cli_present, histVars, dashVars,
                  archVars, storeVars, queueVars, checkVars, decisionVars,
                  next_id, providerVars >>

InitDash ==
  /\ Init
  /\ \A n \in MutableChecks : val[n] = "ok"
  /\ cli_present

NextDash ==
  \/ start_agent
  \/ stop_agent
  \/ post_add_task
  \/ \E task_ids \in ReorderArgs : post_reorder(task_ids)
  \/ \E i \in 1..MaxLoops : AgentRun(i)
  \/ \E i \in 1..MaxLoops : AgentPublish(i)
  \/ \E i \in 1..MaxLoops : AgentLoopStart(i)
  \/ \E i \in 1..MaxLoops : AgentLoopEnter(i)
  \/ \E i \in 1..MaxLoops : AgentLoopExit(i)
  \/ \E i \in 1..MaxLoops : AgentSpawn(i)
  \/ \E i \in 1..MaxLoops : AgentWorkerExit(i)
  \/ \E i \in 1..MaxLoops : AgentSessionEnd(i)
  \/ \E i \in 1..MaxLoops, finished \in BOOLEAN : AgentAfterSession(i, finished)
  \/ \E i \in 1..MaxLoops : AgentFinally(i)

SpecDash == InitDash /\ [][NextDash]_vars

(***************************************************************************)
(* The claims.                                                             *)
(***************************************************************************)
\* the result of the verification that has just run (pc = "decide")
Verified == pc = "decide" /\ last_verification # None
LastResult == last_verification[1]

\* C1 (as claimed; Spec): when three consecutive sessions each end with a
\* tests failure that is not in the baseline, the third verification
\* returns force_accepted = true and passed = true, whatever checkpoint
\* status the Worker left.
C1_ThirdTestsFailureIsForceAccepted ==
  (Verified /\ tests_streak = 3) =>
     (LastResult.force_accepted /\ LastResult.passed)

FoundBlocking ==
  ValidatorBlocking(val, baseline) \cup FilesBlocking(Load(cp_file), disk)
  \cup CriteriaBlocking(tasks, val) \cup TasksBlocking(Load(cp_file), tasks)

C3_CompletedMeansAllDoneAndPassed ==
  run_state = "COMPLETED" =>
     /\ GetProgress(tasks)[1] = GetProgress(tasks)[2]
     /\ LastResult.passed

\* a step of the read loop that takes a usage line from the pipe
ReadStep == pc = "stream" /\ Len(pipe') < Len(pipe)

\* the Worker processes that are running
ActiveWorkers == {i \in 1..MaxLoops : agents[i].process = "alive"}

\* C4 (as claimed; SpecDash): at every moment at most one Worker process is
\* active, under every interleaving of the dashboard's start and stop
\* requests with the loop threads.
C4_AtMostOneWorkerActive == Cardinality(ActiveWorkers) <= 1

\* C5 (SpecGuard): within a session the guard fires at most once; a usage
\* line fires it exactly when it reports input_tokens >= 140000 (70% of
\* 200000) and the guard has not fired in the session; nothing else fires
\* it; the checkpoint-and-terminate step runs at most once.
C5_GuardFiresExactlyOnce ==
  /\ [](Len(guard_fired) <= 1 /\ guard_saved <= 1)
  /\ [][ReadStep =>
          IF Head(pipe) >= 140000 /\ guard_fired = << >>
          THEN guard_fired' = << Head(pipe) >> /\ context_overflow'
          ELSE guard_fired' = guard_fired]_vars
  /\ [][guard_fired' # guard_fired => (ReadStep \/ pc = "run_session")]_vars

\* C5 witness: the guard fired at 140000 and a later line of the same
\* session, reporting 160000, has been read without firing it again
C5_Witness ==
  pc = "stream" /\ guard_fired = << 140000 >> /\ tokens_in = 160000

\* C6 (as claimed; SpecGuard): when the guard has fired in a session, then
\* at the session's return a checkpoint with status WORKING and the token
\* count has been saved, the Worker was terminated and the exit status is 0.
C6_GuardCheckpointsAndReturnsZero ==
  (pc = "post_session" /\ guard_fired # << >>) =>
     /\ guard_saved = 1
     /\ exit_code = 0
     /\ Load(cp_file).status = "WORKING"
     /\ Load(cp_file).session_metrics = Some(tokens_in)

\* C7 (as claimed; Spec): a verification with blocking issues that follows
\* a verification without blocking issues returns retry_count = 1 and is
\* not force-accepted.
C7_RetryCountRestartsAfterCleanVerification ==
  [][(/\ pc = "verify"
       /\ last_verification # None
       /\ last_verification[1].blocking_issues = {}
       /\ last_verification' # None
       /\ last_verification'[1].blocking_issues # {})
     => (/\ last_verification'[1].retry_count = 1
         /\ ~last_verification'[1].force_accepted)]_vars

\* C8 (as claimed; Spec): when the Worker executable is not found the
\* session ends with a non-zero status and no further session is started.
C8_NoSessionAfterWorkerNotFound ==
  ~cli_present =>
     /\ session_count <= 1
     /\ pc \in {"post_session", "verify", "decide", "interrupt_check"} => exit_code # 0

\* C9 (as claimed; Spec): after COMPLETED met a failed verification the
\* Controller does not end the run; it continues with the next session.
C9_MismatchAlwaysContinues ==
  ~(pc = "done" /\ decision = "mismatch")

\* the last_verification record lines 1120-1126 persist
PersistedVerification ==
  Some([ passed          |-> FALSE,
         blocking_issues |-> LastResult.blocking_issues,
         warnings        |-> LastResult.warnings,
         retry_count     |-> LastResult.retry_count,
         session         |-> Load(cp_file).session ])

\* C9 (amended; Spec): when a session ends with checkpoint status COMPLETED
\* and passed = false, the decision step does not end the run as COMPLETED:
\* it sets the status to WORKING and persists last_verification with
\* passed = false and the result's blocking_issues, warnings and
\* retry_count; the loop then starts the next session, unless the running
\* flag has been cleared (stop, interrupt), the session budget is exhausted
\* or the operator declines to continue, in which cases the run ends STOPPED.
C9_MismatchResetsPersistsAndContinues ==
  /\ [][(pc = "decide" /\ IsCompleted(cp_file) /\ ~LastResult.passed /\ pc' # pc)
        => (/\ pc' = "interrupt_check"
            /\ decision' = "mismatch"
            /\ run_state' = "RUNNING"
            /\ Load(cp_file').status = "WORKING"
            /\ Load(cp_file').last_verification = PersistedVerification
            /\ Load(cp_file').session = Load(cp_file).session)]_vars
  /\ [](decision = "mismatch" =>
          /\ run_state # "COMPLETED"
          /\ pc # "start_session" =>
                (Load(cp_file).status = "WORKING"
                 /\ Load(cp_file).last_verification = PersistedVerification))
  /\ [][(decision = "mismatch" /\ pc' # pc) =>
          \/ pc = "interrupt_check" /\ pc' = "loop"
          \/ pc = "loop" /\ pc' = "start_session"
          \/ pc = "start_session"
          \/ /\ pc' = "done"
             /\ run_state' = "STOPPED"
             /\ (exit_code = 130 \/ ~running \/ session_count >= MaxSessions)]_vars

\* C9 witness: the next session starts after a mismatch
C9_Witness ==
  /\ pc = "start_session"
  /\ decision = "mismatch"
  /\ Load(cp_file).status = "WORKING"
  /\ Load(cp_file).last_verification # None

\* C10 (Spec): every validator check that failed in the baseline and fails
\* in the session's verification is absent from blocking_issues and is
\* listed in warnings, marked pre-existing; so for syntax, tests and lint.
C10_BaselineFailuresAreWarnings ==
  Verified =>
     \A n \in CheckNames :
        (baseline[1][n] = "fail" /\ val[n] = "fail") =>
           /\ n \notin LastResult.blocking_issues
           /\ Warning(n, TRUE) \in LastResult.warnings

\* C10 witness: syntax, tests and lint failed in the baseline and fail now
C10_Witness ==
  /\ Verified
  /\ \A n \in {"syntax", "tests", "lint"} : baseline[1][n] = "fail" /\ val[n] = "fail"
  /\ LastResult.blocking_issues = {}

\* C11 (SpecVerify): every result of _verify_session has
\* passed = (blocking_issues is empty or force_accepted), and
\* force_accepted only with blocking issues and retry_count >= 3.
C11_PassedIffCleanOrForceAccepted ==
  Verified =>
     /\ LastResult.passed <=>
           (LastResult.blocking_issues = {} \/ LastResult.force_accepted)
     /\ LastResult.force_accepted =>
           (LastResult.blocking_issues # {} /\ LastResult.retry_count >= 3)

\* C11 witness: a force-accepted result whose blocking issues are a
\* declared file that does not exist and the undone tasks
C11_Witness ==
  /\ Verified
  /\ LastResult.force_accepted
  /\ LastResult.passed
  /\ LastResult.blocking_issues = {"files", "tasks"}
  /\ LastResult.retry_count = 3

\* C12 (as claimed; SpecLive): a run never starts more than max_sessions
\* sessions, and every run terminates as COMPLETED or STOPPED.
C12_RunTerminatesCompletedOrStopped ==
  /\ [](session_count <= MaxSessions)
  /\ <>(run_state \in {"COMPLETED", "STOPPED"})

\* C13 (as claimed; SpecDash): after a stop request has reached a loop, at
\* whatever point of the loop it arrived, the loop starts no further Worker
\* session: its loop condition does not let it into another iteration.
C13_NoSessionAfterStop ==
  [][\A i \in 1..MaxLoops :
       agents[i].stopped => ~(agents[i].at = "while" /\ agents'[i].at = "popen")]_vars

\* C14 (as claimed; Spec): after an operator interrupt during a session the
\* run stays in the accounting of that session until the operator has been
\* asked to continue or stop: it neither starts the next session nor ends
\* before.
C14_InterruptLeadsToOperatorDecision ==
  interrupted =>
     pc \in {"stream", "post_session", "verify", "decide", "interrupt_check",
             "crashed"}

\* C15 (as claimed; SpecQueue): every message the dashboard has enqueued is
\* put into exactly one prompt: it is never in two prompts, and until it is
\* in one it stays unread in the queue document or in the copy the
\* Controller is about to put into its prompt.
C15_EveryMessageInExactlyOnePrompt ==
  \A m \in enqueued :
     /\ delivered[m] <= 1
     /\ delivered[m] = 0 =>
           \/ m \in Unread(queue_file)
           \/ drain_local # None /\ m \in Unread(drain_local[1])

\* the loop's position changes only along the order of a session: counter
\* incremented (start_session), prompt built, Worker run, metrics recorded,
\* verification, decision
SessionOrder ==
  pc' # pc =>
     /\ pc' = "build_prompt" => pc = "start_session"
     /\ pc' = "run_session" => pc = "build_prompt"
     /\ pc' = "stream" => pc = "run_session"
     /\ pc' = "post_session" => pc \in {"run_session", "stream"}
     /\ pc' = "verify" => pc = "post_session"
     /\ pc' = "decide" => pc = "verify"
     /\ pc = "decide" => pc' \in {"interrupt_check", "done"}

\* C16 (as claimed; SpecLive): the steps of a session happen in order,
\* verification never runs while the Worker is active, and every Worker exit
\* (natural, error or guard-triggered) is followed by the verification of its
\* session.
C16_VerificationAfterEachWorkerExit ==
  /\ [][SessionOrder]_vars
  /\ [](pc = "verify" => proc = "none")
  /\ (proc = "exited") ~> (pc = "decide")

\* the fields of a checkpoint record other than updated_at
DataFields ==
  {"status", "session", "context_percent", "files_modified",
   "last_verification", "session_metrics"}

\* C17 (SpecStore): for every record c, save(c) followed by load() does not
\* raise and returns a record equal to c in every field except updated_at.
C17_SaveLoadRoundTrip ==
  (saved # None /\ loaded # None) =>
     /\ ~loaded[1].raised
     /\ \A k \in DataFields : loaded[1].value[k] = saved[1][k]

\* C17 witness: a record with a persisted verification and metrics, whose
\* updated_at the save replaced, has been saved and loaded back
C17_Witness ==
  /\ saved # None
  /\ loaded # None
  /\ saved[1].last_verification # None
  /\ saved[1].session_metrics # None
  /\ saved[1].files_modified # {}
  /\ saved[1].updated_at = "caller"
  /\ loaded[1].value.updated_at = "save"

\* C18 (as claimed; Spec): every save creates exactly one new archive entry:
\* the number of archive entries equals the number of saves.
C18_OneArchiveEntryPerSave ==
  Cardinality(DOMAIN archive) = Saves(archive)

\* C19 (as claimed; Spec): an archive entry, once written, is never written
\* again by a later step of the run (every write stamps a new updated_at, and
\* the saves of one session differ in status or session_metrics as well).
C19_ArchiveEntriesImmutable ==
  [][\A f \in DOMAIN archive :
       f \in DOMAIN archive' /\ archive'[f] = archive[f]]_vars

\* C20 (as claimed; SpecStore): load() never raises, and when the document
\* is not a JSON object (missing, malformed, unreadable, not text, another
\* JSON value) it returns the default initial checkpoint.
C20_LoadNeverRaises ==
  loaded # None =>
     /\ ~loaded[1].raised
     /\ ~(cp_file.kind = "json" /\ cp_file.data.t = "object") =>
           loaded[1].value = CreateInitial

\* C21 (as claimed; SpecSession): every start_session yields a session
\* number exactly one greater than the previous start_session did, and the
\* session number a write of the Checkpoint Store records is never below the
\* one the last start_session yielded, also when the checkpoint document is
\* left unusable between two sessions.
C21_SessionNumberMonotonic ==
  [][/\ session_count' # session_count => started' = started + 1
     /\ (cp_file' # cp_file /\ cp_file'.kind = "json") =>
           GetSessionNumber(cp_file') >= started]_vars

\* the check n of the last run_all ran a command that timed out
CheckTimedOut(n) ==
  /\ commands # None
  /\ LET c == commands[1] IN
       CASE n = "syntax" -> \E f \in DOMAIN c.py_compile : c.py_compile[f] = TimedOut
         [] n = "tests"  -> \/ c.pytest = TimedOut
                            \/ c.pytest = NotFound /\ c.unittest = TimedOut
         [] OTHER        -> FALSE

\* C22 (as claimed; SpecValidator): a syntax or tests check whose command
\* timed out is reported as SKIP or ERROR, never FAIL, and is not a blocking
\* issue of the verification.
C22_TimedOutCheckNeverBlocks ==
  \A n \in BLOCKING_CHECKS :
     CheckTimedOut(n) =>
        /\ val[n] \in {"skip", "error"}
        /\ Verified => n \notin LastResult.blocking_issues

C24_BaselineNeverChanges ==
  [][baseline # None => baseline' = baseline]_vars

\* C26 (as claimed; SpecDecisions): after every write of the Checkpoint
\* Store (each one writes the archive) the decisions list of the current
\* record holds at most 20 entries, the most recent ones.
C26_DecisionsCappedAtTwenty ==
  [][archive' # archive =>
       /\ Len(cp_decisions') <= DECISIONS_KEPT
       /\ \A i \in 1..Len(cp_decisions') :
             cp_decisions'[i] = Made(cp_decisions') - Len(cp_decisions') + i
       /\ Made(cp_decisions') > DECISIONS_KEPT =>
             Len(cp_decisions') = DECISIONS_KEPT]_vars

\* C25 (as claimed; SpecDash): while a run is active no dashboard request
\* writes the Task Store or the Checkpoint Store.
C25_DashboardWritesNoStore ==
  [][AGENT_RUNNING =>
       (tasks' = tasks /\ next_id' = next_id /\ cp_file' = cp_file)]_vars

\* C27 (SpecTasks): the ids of the tasks in the store are pairwise distinct
\* and strictly increasing in the order of creation, which is the order of
\* the list.
C27_IdsDistinctAndIncreasing ==
  \A i, j \in 1..Len(tasks) : i < j => tasks[i].id < tasks[j].id

\* C27 witness: the store is full, and its last task has just been added
C27_Witness ==
  /\ Len(tasks) = MaxTasks
  /\ last_call.op = "add"
  /\ last_call.ret = tasks[Len(tasks)].id

\* C28 (SpecTasks): a task created by add_task gets the priority
\* max(existing priorities) + 1, or 1 in an empty store, and so a priority
\* above that of every other task, after any sequence of add, update and
\* reorder calls.  The existing priorities are those the store reports
\* (_load_data gives a task stored with priority 0 its position).
C28_AddedTaskGetsMaxPlusOne ==
  [][(last_call'.op = "add" /\ last_call' # last_call) =>
       /\ Len(tasks') = Len(tasks) + 1
       /\ tasks'[Len(tasks')].id = last_call'.ret
       /\ tasks'[Len(tasks')].priority =
             IF tasks = << >> THEN 1 ELSE MaxPriorityOf(LoadData(tasks)) + 1
       /\ \A i \in 1..Len(tasks) :
             tasks'[i].priority < tasks'[Len(tasks')].priority]_vars

\* C28 witness: a task has been added to a store whose largest priority came
\* from an update, and got the priority after it
C28_Witness ==
  /\ last_call.op = "add"
  /\ Len(tasks) = MaxTasks
  /\ tasks[1].priority = MaxPriority
  /\ tasks[Len(tasks)].priority = MaxPriority + 1

\* the ids of the tasks of a list
IdsOf(ts) == [i \in 1..Len(ts) |-> ts[i].id]

\* whether the task is one of those the last reorder_tasks was given
Reordered(t) == \E i \in 1..Len(last_call.ids) : last_call.ids[i] = t.id

\* C29 (SpecTasks): after reorder_tasks(ids) with ids of existing tasks, the
\* list sorted by priority and restricted to the tasks of ids is ids, and
\* each of these tasks has its position in ids as priority.
C29_ReorderReproducesIds ==
  (/\ last_call.op = "reorder"
   /\ \A i \in 1..Len(last_call.ids) : IndexOf(tasks, last_call.ids[i]) # 0) =>
     /\ IdsOf(SelectSeq(SortedByPriority(LoadData(tasks)), Reordered)) = last_call.ids
     /\ \A i \in 1..Len(last_call.ids) :
           tasks[IndexOf(tasks, last_call.ids[i])].priority = i

\* C29 witness: all the tasks of a full store have been reordered, into the
\* reverse of the order they were created in
C29_Witness ==
  /\ last_call.op = "reorder"
  /\ Len(tasks) = MaxTasks
  /\ last_call.ids = [i \in 1..MaxTasks |-> MaxTasks + 1 - i]
  /\ \A i \in 1..MaxTasks : tasks[i].priority = MaxTasks + 1 - i

\* the tasks of the store with the status, as positions in the list
WithStatus(status) == GetTasks(tasks, status)

\* whether get_next_task returned a task of the status with the lowest
\* priority number among the tasks of that status
ReturnedLowestOf(status) ==
  \E i \in WithStatus(status) :
     /\ last_call.ret = tasks[i].id
     /\ \A j \in WithStatus(status) : tasks[i].priority <= tasks[j].priority

\* C30 (SpecNext): get_next_task returns an in_progress task whenever there
\* is one, whatever the priorities of the pending tasks, and otherwise a
\* pending one; the task it returns has the lowest priority number of its
\* status; it returns nothing only when no task is in_progress or pending.
C30_InProgressWinsThenLowestPriority ==
  last_call.op = "next" =>
    /\ WithStatus("in_progress") # {} => ReturnedLowestOf("in_progress")
    /\ (WithStatus("in_progress") = {} /\ WithStatus("pending") # {}) =>
          ReturnedLowestOf("pending")
    /\ last_call.ret = 0 <=>
          (WithStatus("in_progress") = {} /\ WithStatus("pending") = {})

\* C30 witness: one in_progress task at priority 5 and pending tasks at
\* priorities 1 and 2; get_next_task returned the in_progress one
C30_Witness ==
  /\ last_call.op = "next"
  /\ \E i, j, k \in DOMAIN tasks :
        /\ tasks[i].status = "in_progress" /\ tasks[i].priority = MaxPriority
        /\ tasks[j].status = "pending" /\ tasks[j].priority = 1
        /\ tasks[k].status = "pending" /\ tasks[k].priority = 2
        /\ last_call.ret = tasks[i].id

\* C31 (as claimed; SpecStatus): at every moment at most one task has the
\* status in_progress, over every sequence of start_task, complete_task,
\* update_task, add_task and reorder_tasks.
C31_AtMostOneInProgress ==
  Cardinality(GetTasks(tasks, "in_progress")) <= 1

\* C32 (Spec): the decision step at the end of a session ends the run as
\* COMPLETED if and only if the Checkpoint status is COMPLETED and the
\* verification of that session has passed = true; the run is marked
\* COMPLETED by no other step, and once it is, no further session is started.
C32_CompletedIffStatusAndPassed ==
  /\ [][(pc = "decide" /\ pc' # pc) =>
          ((pc' = "done" /\ run_state' = "COMPLETED")
             <=> (IsCompleted(cp_file) /\ LastResult.passed))]_vars
  /\ [][(run_state' = "COMPLETED" /\ run_state # "COMPLETED") => pc = "decide"]_vars
  /\ [][run_state = "COMPLETED" =>
          (run_state' = "COMPLETED" /\ pc' = "done"
           /\ session_count' = session_count)]_vars

\* C32 witness: the run has ended COMPLETED in its second session, on a
\* COMPLETED Checkpoint and a verification that passed
C32_Witness ==
  /\ pc = "done"
  /\ run_state = "COMPLETED"
  /\ session_count = 2
  /\ IsCompleted(cp_file)
  /\ LastResult.passed

\* C33 (as claimed; SpecVerify): when the tests failed in the Baseline and
\* fail now, and no other check fails (syntax and lint pass, the declared
\* files exist, the progress agrees with the status), the verification has
\* no blocking issue and passed = true without force-accept, also when a
\* done task has a success_criteria that is checked by running the tests.
C33_BaselineDefectNeverFailsVerification ==
  (/\ Verified
   /\ baseline[1]["tests"] = "fail"
   /\ val["tests"] = "fail"
   /\ \A n \in CheckNames \ {"tests"} : val[n] # "fail"
   /\ FilesBlocking(Load(cp_file), disk) = {}
   /\ TasksBlocking(Load(cp_file), tasks) = {}) =>
     /\ LastResult.blocking_issues = {}
     /\ LastResult.passed
     /\ ~LastResult.force_accepted

\* C34 (SpecProviders): whichever the provider and whether the session
\* starts or fails to start, the session begins with the token count and the
\* context percentage at zero and the guard's fired flag clear; the metrics
\* and the context percentage recorded in the session's Checkpoint are those
\* of that session.
C34_MetricsResetAtSessionStart ==
  /\ [][(pc = "run_session" /\ pc' # pc) =>
          /\ tokens_in' = 0
          /\ context_percent' = 0
          /\ ~context_overflow'
          /\ guard_fired' = << >>
          /\ guard_saved' = 0]_vars
  /\ [](pc \in {"verify", "decide"} =>
          /\ Load(cp_file).session_metrics = Some(tokens_in)
          /\ Load(cp_file).context_percent = Pct(context_percent))

\* C34 witness: the second session of a claude-api run, whose first session
\* ended by the guard, has started with the metrics at zero, and the guard
\* has fired again in it
C34_Witness ==
  /\ provider = "claude-api"
  /\ session_count = 2
  /\ Load(cp_file).session = 2
  /\ pc = "post_session"
  /\ guard_fired = << 140000 >>
  /\ guard_saved = 1

\* the failed verification of the session before the one being started, as
\* the Checkpoint persists it (lines 1120-1126); None when there is none
PersistedFailure ==
  LET lv == Load(cp_file).last_verification IN
    IF lv # None /\ ~lv[1].passed /\ lv[1].session + 1 = Load(cp_file).session
    THEN lv ELSE None

\* C35 (as claimed; SpecResume): the prompt built for a session lists the
\* blocking issues of the verification of the session before it when that
\* verification had passed = false, and none when it had passed = true; so
\* within a run, and so for the first session of a run that resumes from a
\* Checkpoint in which the failed verification is persisted.
C35_NextPromptListsBlockingIssues ==
  [][(pc = "build_prompt" /\ pc' = "run_session") =>
       /\ (last_verification # None /\ ~last_verification[1].passed) =>
             /\ prompt'[1].verification # None
             /\ prompt'[1].verification[1].blocking_issues
                   = last_verification[1].blocking_issues
       /\ (last_verification # None /\ last_verification[1].passed) =>
             prompt'[1].verification = None
       /\ PersistedFailure # None =>
             /\ prompt'[1].verification # None
             /\ prompt'[1].verification[1].blocking_issues
                   = PersistedFailure[1].blocking_issues]_vars

\* C36 (Spec): the retry_count a verification returns is within 0..3; every
\* last_verification record in the Checkpoint has passed = false and a
\* retry_count within 1..2; a verification that passes or force-accepts is
\* followed by no write of the persisted record.
C36_RetryCountBounded ==
  /\ [](last_verification # None =>
          last_verification[1].retry_count \in 0..MAX_VERIFY_RETRIES)
  /\ [](Load(cp_file).last_verification # None =>
          /\ ~Load(cp_file).last_verification[1].passed
          /\ Load(cp_file).last_verification[1].retry_count
                \in 1..(MAX_VERIFY_RETRIES - 1))
  /\ [][(pc = "decide" /\ LastResult.passed) =>
          Load(cp_file').last_verification = Load(cp_file).last_verification]_vars

\* C36 witness: a verification has returned retry_count = 3 and was
\* force-accepted, over a persisted record with retry_count = 2
C36_Witness ==
  /\ Verified
  /\ LastResult.retry_count = MAX_VERIFY_RETRIES
  /\ LastResult.force_accepted
  /\ Load(cp_file).last_verification # None
  /\ Load(cp_file).last_verification[1].retry_count = MAX_VERIFY_RETRIES - 1

\* every task of the Task Store is done
AllTasksDone == \A i \in DOMAIN tasks : tasks[i].status = "done"

\* C37 (as claimed; Spec): a run whose tasks are all done and whose
\* verification passes, while the Checkpoint status is not COMPLETED, keeps
\* starting sessions until the Worker sets COMPLETED or the session budget
\* is exhausted: it does not end before the budget is used up.
C37_KeepsStartingSessionsUntilBudget ==
  (pc = "done" /\ decision = "continue" /\ AllTasksDone /\ LastResult.passed)
     => session_count >= MaxSessions

\* C37 (amended; Spec): the Controller never writes status COMPLETED (the
\* status becomes COMPLETED only by a write of the Worker, while a session's
\* Worker runs), and start_session sets the status to WORKING at the start
\* of each session; so the status is not COMPLETED when the Worker is
\* spawned, and a run ends COMPLETED only on a status the Worker set during
\* the session just ended.  When a verification passes and the status is
\* not COMPLETED the run is not ended as COMPLETED: the loop goes on to
\* the next session, unless the running flag has been cleared (stop,
\* interrupt), the session budget is exhausted or the operator declines to
\* continue, in which cases the run ends STOPPED.
C37_OnlyTheWorkerCompletes ==
  /\ [][(Load(cp_file').status = "COMPLETED" /\ Load(cp_file).status # "COMPLETED")
          => (WorkerAlive /\ UNCHANGED loopVars)]_vars
  /\ [][(pc = "start_session" /\ pc' # pc)
          => (pc' = "build_prompt" /\ Load(cp_file').status = "WORKING")]_vars
  /\ [](pc \in {"build_prompt", "run_session"} => ~IsCompleted(cp_file))
  /\ [](run_state = "COMPLETED" => (IsCompleted(cp_file) /\ session_count >= 1))
  /\ [][(pc = "decide" /\ ~IsCompleted(cp_file) /\ pc' # pc)
          => (pc' = "interrupt_check" /\ decision' = "continue"
              /\ run_state' = "RUNNING")]_vars
  /\ [][(decision = "continue" /\ pc' # pc) =>
          \/ pc = "interrupt_check" /\ pc' = "loop"
          \/ pc = "loop" /\ pc' = "start_session"
          \/ pc = "start_session"
          \/ /\ pc' = "done"
             /\ run_state' = "STOPPED"
             /\ (exit_code = 130 \/ ~running \/ session_count >= MaxSessions)]_vars

\* C37 witness: all tasks are done and the verification of the first
\* session has passed, but the Worker left the status WORKING: the second
\* session is about to start
C37_Witness ==
  /\ pc = "start_session"
  /\ session_count = 2
  /\ decision = "continue"
  /\ AllTasksDone
  /\ LastResult.passed
  /\ ~LastResult.force_accepted
  /\ Load(cp_file).status = "WORKING"

\* C38 (as claimed; SpecLive): when the guard fires (it saves its checkpoint
\* and asks the Worker to terminate), the session returns to start(), whether
\* or not the Worker exits within the 10 seconds of wait(timeout=10); the
\* run then reaches the verification of that session and does not die, so
\* that it stays able to start the next session.
C38_GuardProceedsToVerification ==
  /\ [][guard_saved' # guard_saved
          => (pc' = "post_session" /\ exit_code' = 0 /\ run_state' = "RUNNING")]_vars
  /\ (pc = "post_session") ~> (pc = "decide")
  /\ [](guard_saved > 0 => run_state # "CRASHED")

\* the dashboard's threads whose SessionLoop is in start(): between the
\* entry into loop.start() and its return
LiveLoops ==
  {i \in 1..MaxLoops : agents[i].at \in {"while", "popen", "stream", "verify"}}

\* C39 (as claimed; SpecDash): whenever a loop thread the dashboard started
\* is running its loop, AGENT_RUNNING is true and AGENT_LOOP names that
\* thread's loop, so that stop_agent reaches the live loop; under every
\* interleaving of start requests, stop requests and the finally block of
\* an earlier thread.
C39_FlagAndReferenceAgreeWithThreads ==
  \A i \in LiveLoops : AGENT_RUNNING /\ AGENT_LOOP = i

\* C40 (as claimed; SpecNext): a read operation of the Task Store (here
\* get_next_task, which reads through get_tasks and _load_data as
\* get_progress and get_summary do) leaves the task document as it was,
\* for every store content, also when a task has priority 0 or none.
C40_ReadsLeaveDocumentUnchanged ==
  [][(last_call'.op = "next" /\ last_call.op # "next") => tasks' = tasks]_vars

====
